---- MODULE Spec2Model ----
(***************************************************************************)
(* A model of the document-processing pipeline of pdf-processor:           *)
(*   - CustomerDetector      (src/src/lib/customer-detector.ts)            *)
(*   - TemplateEngine        (src/src/lib/template-engine.ts, 54-524)      *)
(*   - PDFProcessor          (src/src/lib/template-engine.ts, 572-842)     *)
(*   - ProcessingOrchestrator(src/src/lib/template-engine.ts, 874-1363)    *)
(*   - the upload route's background task (src/src/app/api/upload/route.ts)*)
(*                                                                         *)
(* A string is a sequence of one-character strings, so that length,        *)
(* indexOf, includes, split, trim and toLowerCase are computed character   *)
(* by character.  A regular expression is modelled by the literal it       *)
(* searches for.  Confidences are exact rationals <<num, den>>, den > 0.   *)
(***************************************************************************)
EXTENDS Integers, Sequences, FiniteSets, TLC

(***************************************************************************)
(* Bounds of the model.                                                    *)
(***************************************************************************)
NumDocs == 1
MaxRuns == 2
MaxClock == 1
MaxFaults == 1
MaxAdds == 2

\* the requests the mapping routes take, and their clients
MaxRequests == 4

MaxClients == 2

\* the calls of authorize, the callers, and the minutes the clock runs
MaxAttempts == 7

MaxLogins == 2

MaxTime == 16

(***************************************************************************)
(* Generic helpers.                                                        *)
(***************************************************************************)
Range(s) == {s[i] : i \in DOMAIN s}

Min(a, b) == IF a <= b THEN a ELSE b

Max(a, b) == IF a >= b THEN a ELSE b

RECURSIVE SumSeq(_)
\* the sum of a sequence of numbers (the accumulations "x += w" of a loop)
SumSeq(s) == IF s = <<>> THEN 0 ELSE Head(s) + SumSeq(Tail(s))

\* exact rationals: <<n, d>> stands for n / d, d > 0
Rat(n, d) == <<n, d>>

RZero == Rat(0, 1)

ROne == Rat(1, 1)

RLt(a, b) == a[1] * b[2] < b[1] * a[2]

RLe(a, b) == a[1] * b[2] <= b[1] * a[2]

REq(a, b) == a[1] * b[2] = b[1] * a[2]

RAdd(a, b) == Rat(a[1] * b[2] + b[1] * a[2], a[2] * b[2])

RMul(a, b) == Rat(a[1] * b[1], a[2] * b[2])

RIn01(a) == RLe(RZero, a) /\ RLe(a, ROne)

(***************************************************************************)
(* Strings.                                                                *)
(***************************************************************************)
UpperCase ==
  <<"A", "B", "C", "D", "E", "F", "G", "H", "I", "J", "K", "L", "M",
    "N", "O", "P", "Q", "R", "S", "T", "U", "V", "W", "X", "Y", "Z">>

LowerCase ==
  <<"a", "b", "c", "d", "e", "f", "g", "h", "i", "j", "k", "l", "m",
    "n", "o", "p", "q", "r", "s", "t", "u", "v", "w", "x", "y", "z">>

toLowerChar(c) ==
  IF \E i \in DOMAIN UpperCase : UpperCase[i] = c
  THEN LowerCase[CHOOSE i \in DOMAIN UpperCase : UpperCase[i] = c]
  ELSE c

\* String.prototype.toLowerCase
toLowerCase(s) == [i \in DOMAIN s |-> toLowerChar(s[i])]

\* String.prototype.indexOf: the least 0-based index at which p occurs, or -1
indexOf(s, p) ==
  LET at == {i \in 0..(Len(s) - Len(p)) : SubSeq(s, i + 1, i + Len(p)) = p}
  IN IF at = {} THEN -1 ELSE CHOOSE i \in at : \A j \in at : i <= j

\* String.prototype.includes
includes(s, p) == indexOf(s, p) # -1

\* String.prototype.substring(from)
substring(s, from) == SubSeq(s, from + 1, Len(s))

WhiteSpace == {" ", "\n", "\t", "\f"}

RECURSIVE trimStart(_)
trimStart(s) ==
  IF s # <<>> /\ Head(s) \in WhiteSpace THEN trimStart(Tail(s)) ELSE s

RECURSIVE trimEnd(_)
trimEnd(s) ==
  IF s # <<>> /\ s[Len(s)] \in WhiteSpace THEN trimEnd(SubSeq(s, 1, Len(s) - 1)) ELSE s

\* String.prototype.trim
trim(s) == trimEnd(trimStart(s))

\* the k-th smallest member of a set of numbers
nth(S, k) == CHOOSE c \in S : Cardinality({d \in S : d < c}) = k - 1

\* the pieces of s between separator characters
splitAcc(s, seps) ==
  LET cuts == {0} \cup {i \in 1..Len(s) : s[i] \in seps} \cup {Len(s) + 1}
  IN [k \in 1..(Cardinality(cuts) - 1) |->
        SubSeq(s, nth(cuts, k) + 1, nth(cuts, k + 1) - 1)]

\* text.split('\n')
splitLines(s) == splitAcc(s, {"\n"})

\* every run of white space replaced by one blank
squeeze(s) ==
  LET keep == {i \in 1..Len(s) : ~(s[i] \in WhiteSpace /\ i > 1 /\ s[i - 1] \in WhiteSpace)}
  IN [k \in 1..Cardinality(keep) |->
        IF s[nth(keep, k)] \in WhiteSpace THEN " " ELSE s[nth(keep, k)]]

\* s.split(/\s+/): a run of white space is one separator
splitWords(s) ==
  LET white(i) == i \in 1..Len(s) /\ s[i] \in WhiteSpace
      starts == {i \in 1..Len(s) : white(i) /\ ~white(i - 1)}
      ends == {i \in 1..Len(s) : white(i) /\ ~white(i + 1)}
      n == Cardinality(starts)
  IN [k \in 1..(n + 1) |->
        SubSeq(s, IF k = 1 THEN 1 ELSE nth(ends, k - 1) + 1,
                  IF k = n + 1 THEN Len(s) ELSE nth(starts, k) - 1)]

RECURSIVE join(_, _)
\* Array.prototype.join
join(parts, sep) ==
  IF parts = <<>> THEN <<>>
  ELSE IF Len(parts) = 1 THEN parts[1]
       ELSE parts[1] \o sep \o join(Tail(parts), sep)

\* new RegExp(p) throws for these patterns
InvalidRegexes == {<<"(">>, <<"[">>}

\* the detector's and the engine's case rule for a literal search
Includes(text, p, caseSensitive) ==
  IF caseSensitive THEN includes(text, p)
  ELSE includes(toLowerCase(text), toLowerCase(p))

(***************************************************************************)
(* CustomerDetector (src/src/lib/customer-detector.ts).                    *)
(* A customer is [id, name]; a DetectionPattern is                         *)
(* [type, pattern, weight, caseSensitive].  Weights are counted in units   *)
(* of 0.5 (weight 2 is 1.0, weight 4 is 2.0).                              *)
(***************************************************************************)
NoCustomer == "null"

NoName == <<>>

NoMatch ==
  [customerId |-> NoCustomer, customerName |-> NoName, confidence |-> RZero,
   matchedPatterns |-> <<>>, detectionMethod |-> "exact_match"]

PatternsOf(s) == [i \in DOMAIN s |-> s[i].pattern]

\* { customerId: confidence > t ? customer.id : null, ... }
DetectionResult(customer, confidence, threshold, matched, method) ==
  [customerId |-> IF RLt(threshold, confidence) THEN customer.id ELSE NoCustomer,
   customerName |-> IF RLt(threshold, confidence) THEN customer.name ELSE NoName,
   confidence |-> confidence,
   matchedPatterns |-> matched,
   detectionMethod |-> method]

ExactThreshold == Rat(5, 10)

checkExactMatch(text, customer, patterns) ==
  LET textPatterns == SelectSeq(patterns, LAMBDA p : p.type = "text")
      hit(p) == Includes(text, p.pattern, p.caseSensitive)
      totalWeight == SumSeq([i \in DOMAIN textPatterns |-> textPatterns[i].weight])
      matchedWeight ==
        SumSeq([i \in DOMAIN textPatterns |->
                  IF hit(textPatterns[i]) THEN textPatterns[i].weight ELSE 0])
      confidence == IF totalWeight > 0 THEN Rat(matchedWeight, totalWeight) ELSE RZero
  IN DetectionResult(customer, confidence, ExactThreshold,
                     PatternsOf(SelectSeq(textPatterns, hit)), "exact_match")

\* the lines a header or footer pattern is searched in
HeaderFooterLines == 5

\* lines.slice(0, Math.min(5, lines.length)).join(' ')
headerLines(text) ==
  LET lines == splitLines(text)
  IN join(SubSeq(lines, 1, Min(HeaderFooterLines, Len(lines))), <<" ">>)

\* lines.slice(-Math.min(5, lines.length)).join(' ')
footerLines(text) ==
  LET lines == splitLines(text)
  IN join(SubSeq(lines, Len(lines) - Min(HeaderFooterLines, Len(lines)) + 1, Len(lines)),
          <<" ">>)

PatternThreshold == Rat(6, 10)

checkPatternMatch(text, customer, patterns) ==
  LET regexPatterns == SelectSeq(patterns, LAMBDA p : p.type = "regex")
      \* new RegExp throws for an invalid pattern: caught, the pattern does not match
      regexHit(p) ==
        /\ p.pattern \notin InvalidRegexes
        /\ Includes(text, p.pattern, p.caseSensitive)
      hfPatterns == SelectSeq(patterns, LAMBDA p : p.type \in {"header", "footer"})
      hfHit(p) ==
        Includes(IF p.type = "header" THEN headerLines(text) ELSE footerLines(text),
                 p.pattern, p.caseSensitive)
      totalWeight ==
        SumSeq([i \in DOMAIN regexPatterns |-> regexPatterns[i].weight])
        + SumSeq([i \in DOMAIN hfPatterns |-> hfPatterns[i].weight])
      matchedWeight ==
        SumSeq([i \in DOMAIN regexPatterns |->
                  IF regexHit(regexPatterns[i]) THEN regexPatterns[i].weight ELSE 0])
        + SumSeq([i \in DOMAIN hfPatterns |->
                  IF hfHit(hfPatterns[i]) THEN hfPatterns[i].weight ELSE 0])
      confidence == IF totalWeight > 0 THEN Rat(matchedWeight, totalWeight) ELSE RZero
  IN DetectionResult(customer, confidence, PatternThreshold,
                     PatternsOf(SelectSeq(regexPatterns, regexHit))
                       \o PatternsOf(SelectSeq(hfPatterns, hfHit)),
                     "pattern_match")

\* customer.name.toLowerCase().split(/\s+/)
nameWords(customer) == splitWords(toLowerCase(customer.name))

FuzzyThreshold == Rat(5, 10)

checkFuzzyMatch(text, customer) ==
  LET words == nameWords(customer)
      hit(w) == Len(w) > 2 /\ Includes(text, w, FALSE)
      matchedWords == Len(SelectSeq(words, hit))
      \* (matchedWords / words.length) * 0.8
      confidence ==
        IF Len(words) > 0 THEN RMul(Rat(matchedWords, Len(words)), Rat(8, 10)) ELSE RZero
  IN DetectionResult(customer, confidence, FuzzyThreshold,
                     SelectSeq(words, hit), "fuzzy_match")

FilenameThreshold == Rat(5, 10)

\* the confidence of a file name match left as summed
uncappedFilenameConfidence(raw) == raw

\* Math.min(confidence, 0.9), in tenths
capFilenameConfidence(raw) == Min(raw, 9)

checkFilenameMatch(fileName, customer, patterns) ==
  LET fileNameLower == toLowerCase(fileName)
      wordHit(w) == Len(w) > 2 /\ includes(fileNameLower, w)
      patHit(p) == includes(fileNameLower, toLowerCase(p.pattern))
      words == SelectSeq(nameWords(customer), wordHit)
      pats == SelectSeq(patterns, patHit)
      \* confidence += 0.3 per word, += 0.4 per pattern, in tenths
      raw == 3 * Len(words) + 4 * Len(pats)
      confidence == Rat(capFilenameConfidence(raw), 10)
  IN DetectionResult(customer, confidence, FilenameThreshold,
                     words \o PatternsOf(pats), "fuzzy_match")

RECURSIVE insertAheadOfTies(_, _)
\* the place a sort that is not stable may give x: ahead of its equals
insertAheadOfTies(sorted, x) ==
  IF sorted = <<>> THEN <<x>>
  ELSE IF RLe(Head(sorted).confidence, x.confidence) THEN <<x>> \o sorted
       ELSE <<Head(sorted)>> \o insertAheadOfTies(Tail(sorted), x)

RECURSIVE InsertByConfidence(_, _)
\* the place a stable descending sort gives x among the already sorted
InsertByConfidence(sorted, x) ==
  IF sorted = <<>> THEN <<x>>
  ELSE IF RLt(Head(sorted).confidence, x.confidence) THEN <<x>> \o sorted
       ELSE <<Head(sorted)>> \o InsertByConfidence(Tail(sorted), x)

RECURSIVE SortByConfidence(_)
\* results.sort((a, b) => b.confidence - a.confidence), a stable sort
SortByConfidence(results) ==
  IF results = <<>> THEN <<>>
  ELSE InsertByConfidence(SortByConfidence(SubSeq(results, 1, Len(results) - 1)),
                          results[Len(results)])

\* the candidates one customer contributes, in the order they are pushed
CandidatesOf(customer, patterns, text, fileName) ==
  LET own == IF customer.id \in DOMAIN patterns THEN patterns[customer.id] ELSE <<>>
      all == <<checkExactMatch(text, customer, own),
               checkPatternMatch(text, customer, own),
               checkFuzzyMatch(text, customer)>>
             \* if (fileName): an absent or empty file name is skipped
             \o (IF fileName # <<>> THEN <<checkFilenameMatch(fileName, customer, own)>>
                 ELSE <<>>)
  IN SelectSeq(all, LAMBDA r : RLt(RZero, r.confidence))

RECURSIVE PooledCandidates(_, _, _, _)
PooledCandidates(customers, patterns, text, fileName) ==
  IF customers = <<>> THEN <<>>
  ELSE CandidatesOf(Head(customers), patterns, text, fileName)
       \o PooledCandidates(Tail(customers), patterns, text, fileName)

detectCustomer(customers, patterns, text, fileName) ==
  LET results == PooledCandidates(customers, patterns, text, fileName)
  IN IF results = <<>> THEN NoMatch ELSE SortByConfidence(results)[1]

\* what "pattern.pattern || pattern.value" leaves when neither is a non-empty string
Undefined == <<"undefined">>

\* one object of the stored pattern array, as parseIdentifierPatterns reads it: an
\* absent member is <<>>, a present one a one-element sequence
parseObjectPattern(raw) ==
  [type |-> IF raw.type = <<>> THEN "text" ELSE raw.type[1],
   \* pattern.pattern || pattern.value: an empty string is falsy
   pattern |-> IF raw.pattern # <<>> /\ raw.pattern[1] # <<>> THEN raw.pattern[1]
               ELSE IF raw.value # <<>> /\ raw.value[1] # <<>> THEN raw.value[1]
               ELSE Undefined,
   \* pattern.weight || 1.0, in halves
   weight |-> IF raw.weight # <<>> /\ raw.weight[1] # 0 THEN raw.weight[1] ELSE 2,
   caseSensitive |-> raw.caseSensitive # <<>> /\ raw.caseSensitive[1]]

\* a string of the stored pattern array
parseStringPattern(s) ==
  [type |-> "text", pattern |-> s, weight |-> 2, caseSensitive |-> FALSE]

\* an entry [key, value] of the object format { companyName: "ACME Corp", ... }
parseEntryPattern(entry) ==
  [type |-> IF includes(entry.key, <<"r", "e", "g", "e", "x">>) THEN "regex" ELSE "text",
   pattern |-> entry.value,
   weight |-> IF includes(entry.key, <<"n", "a", "m", "e">>) THEN 4 ELSE 2,
   caseSensitive |-> FALSE]

\* CustomerDetector.parseIdentifierPatterns: the stored data is
\* [format |-> "array", items |-> <<[form |-> "string", s |-> ...] or
\*                                  [form |-> "object", type, pattern, value, weight,
\*                                   caseSensitive]>>]
\* or [format |-> "object", items |-> <<[key, value]>>]
parseIdentifierPatterns(patternsData) ==
  IF patternsData.format = "array"
  THEN [i \in DOMAIN patternsData.items |->
          IF patternsData.items[i].form = "string"
          THEN parseStringPattern(patternsData.items[i].s)
          ELSE parseObjectPattern(patternsData.items[i])]
  ELSE [i \in DOMAIN patternsData.items |-> parseEntryPattern(patternsData.items[i])]

\* pattern.pattern.toLowerCase() of an undefined pattern is a TypeError: in
\* checkExactMatch and in the header/footer loop when the pattern is not case
\* sensitive, in checkFilenameMatch for every pattern
patternThrows(p, fileName) ==
  /\ p.pattern = Undefined
  /\ \/ (p.type \in {"text", "header", "footer"} /\ ~p.caseSensitive)
     \/ fileName # <<>>

\* where no TypeError is raised an undefined pattern is used as the string
\* "undefined" by includes() and as the empty expression by new RegExp()
coercePattern(p) ==
  IF p.pattern # Undefined THEN p
  ELSE [p EXCEPT !.pattern = IF p.type = "regex" THEN <<>> ELSE <<"u", "n", "d", "e", "f", "i", "n", "e", "d">>]

\* whether a call of detectCustomer throws: nothing in it catches a TypeError
detectCustomerThrows(customers, patterns, fileName) ==
  \E i \in DOMAIN customers :
    /\ customers[i].id \in DOMAIN patterns
    /\ \E k \in DOMAIN patterns[customers[i].id] :
         patternThrows(patterns[customers[i].id][k], fileName)

\* the cache as the heuristics read it where no TypeError is raised
coercedPatterns(patterns) ==
  [c \in DOMAIN patterns |-> [k \in DOMAIN patterns[c] |-> coercePattern(patterns[c][k])]]

\* a call of detectCustomer: that it threw, or what it returns and the candidates it
\* pooled (the array "results" before the sort)
callDetectCustomer(customers, patterns, text, fileName) ==
  IF detectCustomerThrows(customers, patterns, fileName)
  THEN [kind |-> "threw", result |-> NoMatch, pooled |-> <<>>]
  ELSE [kind |-> "returned",
        result |-> detectCustomer(customers, coercedPatterns(patterns), text, fileName),
        pooled |-> PooledCandidates(customers, coercedPatterns(patterns), text, fileName)]

(***************************************************************************)
(* Values of extracted fields: a string, a number (an exact rational), NaN,*)
(* null, or an exception thrown while a field is evaluated.                *)
(***************************************************************************)
VNull == [kind |-> "null", s |-> <<>>, n |-> RZero]

VStr(s) == [kind |-> "str", s |-> s, n |-> RZero]

VNum(r) == [kind |-> "num", s |-> <<>>, n |-> r]

VNaN == [kind |-> "nan", s |-> <<>>, n |-> RZero]

\* an opaque object or array (the structured data handed to the engine)
VObj == [kind |-> "obj", s |-> <<>>, n |-> RZero]

Thrown(msg) == [kind |-> "throw", s |-> msg, n |-> RZero]

Digits == <<"0", "1", "2", "3", "4", "5", "6", "7", "8", "9">>

isDigit(c) == \E i \in DOMAIN Digits : Digits[i] = c

digitValue(c) == (CHOOSE i \in DOMAIN Digits : Digits[i] = c) - 1

RECURSIVE natToString(_)
natToString(n) ==
  IF n < 10 THEN <<Digits[n + 1]>> ELSE natToString(n \div 10) \o <<Digits[(n % 10) + 1]>>

\* String(value); a number of the model prints as an integer when it is one
String(v) ==
  CASE v.kind = "str" -> v.s
    [] v.kind = "num" ->
         IF v.n[1] % v.n[2] = 0
         THEN (IF v.n[1] < 0 THEN <<"-">> ELSE <<>>)
              \o natToString((IF v.n[1] < 0 THEN -v.n[1] ELSE v.n[1]) \div v.n[2])
         ELSE (IF v.n[1] < 0 THEN <<"-">> ELSE <<>>)
              \o natToString(IF v.n[1] < 0 THEN -v.n[1] ELSE v.n[1])
              \o <<"/">> \o natToString(v.n[2])
    [] v.kind = "nan" -> <<"N", "a", "N">>
    [] v.kind = "null" -> <<"n", "u", "l", "l">>
    [] OTHER -> <<"[", "o", "b", "j", "e", "c", "t", "]">>

RECURSIVE leadingDigits(_)
leadingDigits(s) ==
  IF s # <<>> /\ isDigit(Head(s)) THEN <<Head(s)>> \o leadingDigits(Tail(s)) ELSE <<>>

RECURSIVE digitsToNat(_)
digitsToNat(d) ==
  IF d = <<>> THEN 0 ELSE 10 * digitsToNat(SubSeq(d, 1, Len(d) - 1)) + digitValue(d[Len(d)])

\* parseFloat of a string: the numeral it starts with (the numerals of the model
\* carry no fraction other than zeros), NaN when it starts with none
parseFloatStr(s) ==
  LET t == trimStart(s)
      neg == t # <<>> /\ Head(t) = "-"
      u == IF t # <<>> /\ Head(t) \in {"-", "+"} THEN Tail(t) ELSE t
      d == leadingDigits(u)
  IN IF d = <<>> THEN VNaN
     ELSE VNum(Rat(IF neg THEN -digitsToNat(d) ELSE digitsToNat(d), 1))

parseFloat(v) ==
  CASE v.kind = "num" -> v
    [] v.kind = "str" -> parseFloatStr(v.s)
    [] OTHER -> VNaN

(***************************************************************************)
(* TemplateEngine (src/src/lib/template-engine.ts, 54-524).  The           *)
(* extractedData argument is [tables, fields].                             *)
(* A template is [id, customerId, name, extractionRules,                   *)
(* hardcodedMappings]; a rule is [fieldName, extractionType, pattern,      *)
(* position, tableConfig, keywordConfig, calculationConfig, validation]    *)
(* where an absent optional part is <<>> and a present one is a            *)
(* one-element sequence.                                                   *)
(***************************************************************************)
extractWithRegex(rule, text) ==
  IF rule.pattern = <<>> THEN VNull
  ELSE IF rule.pattern \in InvalidRegexes THEN Thrown("Invalid regex pattern")
  ELSE LET i == indexOf(toLowerCase(text), toLowerCase(rule.pattern))
       IN IF i = -1 THEN VNull
          ELSE VStr(SubSeq(text, i + 1, i + Len(rule.pattern)))

RECURSIVE stripColons(_)
\* the prefix [:\s]* of /^[:\s]*(.+)$/ removed
stripColons(s) ==
  IF s # <<>> /\ Head(s) \in (WhiteSpace \cup {":"}) THEN stripColons(Tail(s)) ELSE s

\* what the switch on direction does for a keyword found in line i (1-based):
\* [returns |-> whether the function returns there, value |-> what it returns]
keywordHit(lines, i, keyword, cfg) ==
  LET line == lines[i]
      keywordIndex == indexOf(toLowerCase(line), toLowerCase(keyword))
  IN CASE cfg.direction = "same_line" ->
            LET afterKeyword == trim(substring(line, keywordIndex + Len(keyword)))
                rest == stripColons(afterKeyword)
            IN [returns |-> TRUE,
                value |-> IF afterKeyword = <<>> THEN VNull
                          ELSE IF rest = <<>>
                               THEN VStr(<<afterKeyword[Len(afterKeyword)]>>)
                               ELSE VStr(trim(rest))]
       [] cfg.direction = "after" ->
            LET js == {j \in (i + 1)..Min(i + cfg.searchRadius, Len(lines)) :
                         trim(lines[j]) # <<>>}
            IN IF js = {} THEN [returns |-> FALSE, value |-> VNull]
               ELSE [returns |-> TRUE,
                     value |-> VStr(trim(lines[CHOOSE j \in js : \A k \in js : j <= k]))]
       [] cfg.direction = "before" ->
            LET js == {j \in Max(i - cfg.searchRadius, 1)..(i - 1) :
                         trim(lines[j]) # <<>>}
            IN IF js = {} THEN [returns |-> FALSE, value |-> VNull]
               ELSE [returns |-> TRUE,
                     value |-> VStr(trim(lines[CHOOSE j \in js : \A k \in js : j >= k]))]
       [] OTHER -> [returns |-> FALSE, value |-> VNull]

\* the order of the two nested loops: keywords outside, lines inside
keywordLoopBefore(a, b) == a[1] < b[1] \/ (a[1] = b[1] /\ a[2] <= b[2])

extractWithKeyword(rule, text) ==
  IF rule.keywordConfig = <<>> THEN VNull
  ELSE LET cfg == rule.keywordConfig[1]
           lines == splitLines(text)
           hits == {h \in (DOMAIN cfg.keywords) \X (DOMAIN lines) :
                      /\ includes(toLowerCase(lines[h[2]]), toLowerCase(cfg.keywords[h[1]]))
                      /\ keywordHit(lines, h[2], cfg.keywords[h[1]], cfg).returns}
       IN IF hits = {} THEN VNull
          ELSE LET first == CHOOSE h \in hits : \A g \in hits : keywordLoopBefore(h, g)
               IN keywordHit(lines, first[2], cfg.keywords[first[1]], cfg).value

\* lines.slice(startLine, endLine).join(' ').trim()
extractFromPosition(rule, text) ==
  IF rule.position = <<>> THEN VNull
  ELSE LET pos == rule.position[1]
           lines == splitLines(text)
           startLine == Max(0, pos.y - 2)
           endLine == Min(Len(lines), startLine + (IF pos.height = 0 THEN 1 ELSE pos.height))
       IN IF pos.page # 0
          THEN VStr(trim(join(SubSeq(lines, startLine + 1, endLine), <<" ">>)))
          ELSE VNull

\* extractedData[field] || 0
fieldOrZero(data, field) ==
  IF field \in DOMAIN data
  THEN (IF data[field].kind = "null"
           \/ (data[field].kind = "str" /\ data[field].s = <<>>)
           \/ (data[field].kind = "num" /\ data[field].n[1] = 0)
           \/ data[field].kind = "nan"
        THEN VNum(RZero) ELSE data[field])
  ELSE VNum(RZero)

RSub(a, b) == Rat(a[1] * b[2] - b[1] * a[2], a[2] * b[2])

\* a / b with b # 0, the denominator kept positive
RDiv(a, b) ==
  IF b[1] > 0 THEN Rat(a[1] * b[2], a[2] * b[1]) ELSE Rat(-(a[1] * b[2]), -(a[2] * b[1]))

RECURSIVE reduceValues(_, _, _)
\* values.reduce(op) continued from the accumulator acc; a division by zero
\* leaves no number
reduceValues(op, acc, rest) ==
  IF rest = <<>> THEN acc
  ELSE IF acc.kind # "num" THEN acc
  ELSE LET v == Head(rest).n
           next == CASE op = "sum" -> VNum(RAdd(acc.n, v))
                     [] op = "multiply" -> VNum(RMul(acc.n, v))
                     [] op = "subtract" -> VNum(RSub(acc.n, v))
                     [] op = "divide" -> IF v[1] = 0 THEN VNaN ELSE VNum(RDiv(acc.n, v))
                     [] OTHER -> VNull
       IN reduceValues(op, next, Tail(rest))

\* calculateValue without a formula: the source fields are read from the object
\* the caller passed as extractedData (fields: its entries other than the tables)
calculateValue(rule, fields) ==
  IF rule.calculationConfig = <<>> THEN VNull
  ELSE LET cfg == rule.calculationConfig[1]
           parsed == [i \in DOMAIN cfg.sourceFields |->
                        parseFloat(fieldOrZero(fields, cfg.sourceFields[i]))]
           values == SelectSeq(parsed, LAMBDA v : v.kind = "num")
       IN IF values = <<>> THEN VNull
          ELSE CASE cfg.operation = "sum" -> reduceValues("sum", VNum(RZero), values)
                 [] cfg.operation = "multiply" -> reduceValues("multiply", VNum(ROne), values)
                 [] cfg.operation = "subtract" ->
                      reduceValues("subtract", values[1], Tail(values))
                 [] cfg.operation = "divide" ->
                      reduceValues("divide", values[1], Tail(values))
                 [] OTHER -> VNull

\* row[col] || null
cellOrNull(row, col) ==
  IF col \in DOMAIN row /\ row[col] # <<>> THEN VStr(row[col]) ELSE VNull

\* a table is [rows, headers]; tableIndex, columnIndex and rowIndex count from 0
extractFromTable(rule, tables) ==
  IF rule.tableConfig = <<>> \/ tables = <<>> THEN VNull
  ELSE LET cfg == rule.tableConfig[1]
       IN IF cfg.tableIndex >= Len(tables) THEN VNull
          ELSE LET table == tables[cfg.tableIndex + 1]
                   cols == {c \in DOMAIN table.headers :
                              includes(toLowerCase(table.headers[c]),
                                       toLowerCase(cfg.headerName))}
               IN IF cfg.headerName # <<>>
                  THEN (IF cols # {} /\ Len(table.rows) > 1
                        THEN cellOrNull(table.rows[2],
                                        CHOOSE c \in cols : \A d \in cols : c <= d)
                        ELSE VNull)
                  ELSE (IF Len(table.rows) > cfg.rowIndex
                           /\ Len(table.rows[cfg.rowIndex + 1]) > cfg.columnIndex
                        THEN cellOrNull(table.rows[cfg.rowIndex + 1], cfg.columnIndex + 1)
                        ELSE VNull)

extractField(rule, text, extractedData) ==
  CASE rule.extractionType = "regex" -> extractWithRegex(rule, text)
    [] rule.extractionType = "keyword" -> extractWithKeyword(rule, text)
    [] rule.extractionType = "table" -> extractFromTable(rule, extractedData.tables)
    [] rule.extractionType = "position" -> extractFromPosition(rule, text)
    [] rule.extractionType = "calculation" -> calculateValue(rule, extractedData.fields)
    [] OTHER -> Thrown("Unknown extraction type")

RECURSIVE globMatch(_, _)
\* new RegExp('^' + pattern with * -> .* and ? -> . + '$').test(text): a "." of the
\* pattern is left unescaped and matches any character but a line break
globMatch(text, pattern) ==
  IF pattern = <<>> THEN text = <<>>
  ELSE IF Head(pattern) = "*"
       THEN \E k \in 0..Len(text) :
              /\ \A j \in 1..k : text[j] # "\n"
              /\ globMatch(SubSeq(text, k + 1, Len(text)), Tail(pattern))
       ELSE /\ text # <<>>
            /\ IF Head(pattern) \in {"?", "."} THEN Head(text) # "\n"
               ELSE toLowerChar(Head(text)) = toLowerChar(Head(pattern))
            /\ globMatch(Tail(text), Tail(pattern))

\* the characters that make the translated pattern an invalid expression
RegexBreakers == {"(", "["}

matchWildcard(text, pattern) ==
  IF \E i \in DOMAIN pattern : pattern[i] \in RegexBreakers THEN FALSE
  ELSE globMatch(text, pattern)

\* whether one mapping applies to the value
mappingMatches(mapping, value) ==
  LET sourcePattern == toLowerCase(mapping.sourcePattern)
      valueStr == toLowerCase(String(value))
  IN \/ includes(valueStr, sourcePattern)
     \/ (includes(sourcePattern, <<"*">>) /\ matchWildcard(valueStr, sourcePattern))

applyHardcodedMappings(mappings, fieldName, value) ==
  LET fieldMappings == SelectSeq(mappings, LAMBDA m : m.fieldName = fieldName)
      matching == SelectSeq(fieldMappings, LAMBDA m : mappingMatches(m, value))
  IN IF matching = <<>> THEN value ELSE VStr(matching[1].targetValue)

\* Date.parse(value) is a number: the model knows the form dddd-dd-dd
isDateString(s) ==
  /\ Len(s) = 10
  /\ \A i \in {1, 2, 3, 4, 6, 7, 9, 10} : isDigit(s[i])
  /\ s[5] = "-" /\ s[8] = "-"

\* /^\$?\d+\.?\d*$/.test(String(value).replace(/,/g, ''))
isCurrencyString(s) ==
  LET t == SelectSeq(s, LAMBDA c : c # ",")
      u == IF t # <<>> /\ Head(t) = "$" THEN Tail(t) ELSE t
      d == leadingDigits(u)
      v == SubSeq(u, Len(d) + 1, Len(u))
      w == IF v # <<>> /\ Head(v) = "." THEN Tail(v) ELSE v
  IN d # <<>> /\ leadingDigits(w) = w

\* String(value).replace('%', ''): the first percent sign removed
dropFirstPercent(s) ==
  LET i == indexOf(s, <<"%">>)
  IN IF i = -1 THEN s ELSE SubSeq(s, 1, i) \o SubSeq(s, i + 2, Len(s))

isEmptyValue(v) == v.kind = "null" \/ (v.kind = "str" /\ v.s = <<>>)

\* the data type check of validateField: the errors it pushes
dataTypeErrors(dataType, value) ==
  CASE dataType = "number" ->
         IF parseFloat(value).kind = "nan" THEN <<"Value must be a number">> ELSE <<>>
    [] dataType = "date" ->
         IF value.kind = "str" /\ isDateString(value.s) THEN <<>>
         ELSE <<"Value must be a valid date">>
    [] dataType = "currency" ->
         IF isCurrencyString(String(value)) THEN <<>>
         ELSE <<"Value must be a valid currency amount">>
    [] dataType = "percentage" ->
         LET numVal == parseFloatStr(dropFirstPercent(String(value)))
         IN IF numVal.kind = "nan" \/ RLt(numVal.n, RZero) \/ RLt(Rat(100, 1), numVal.n)
            THEN <<"Value must be a valid percentage">> ELSE <<>>
    [] OTHER -> <<>>

\* a validation is [dataType, required, minLength, maxLength, pattern]; a length
\* bound of 0 and a pattern <<>> are "not given"
validateField(rule, value) ==
  IF rule.validation = <<>> THEN [isValid |-> TRUE, errors |-> <<>>]
  ELSE LET v == rule.validation[1]
           strValue == String(value)
           errors ==
             dataTypeErrors(v.dataType, value)
             \o (IF v.minLength # 0 /\ Len(strValue) < v.minLength
                 THEN <<"Value is too short">> ELSE <<>>)
             \o (IF v.maxLength # 0 /\ Len(strValue) > v.maxLength
                 THEN <<"Value is too long">> ELSE <<>>)
             \o (IF v.pattern = <<>> THEN <<>>
                 ELSE IF v.pattern \in InvalidRegexes THEN <<"Invalid validation pattern">>
                 ELSE IF includes(strValue, v.pattern) THEN <<>>
                 ELSE <<"Value does not match required pattern">>)
       IN IF v.required /\ isEmptyValue(value)
          THEN [isValid |-> FALSE,
                errors |-> <<"Field is required but no value was extracted">>]
          ELSE IF isEmptyValue(value) THEN [isValid |-> TRUE, errors |-> <<>>]
          ELSE [isValid |-> errors = <<>>, errors |-> errors]

\* rule.validation?.required
isRequired(rule) == rule.validation # <<>> /\ rule.validation[1].required

\* result.success = result.errors.length === 0 && result.confidence > 0.5
resultSuccess(errors, confidence) == errors = <<>> /\ RLt(Rat(5, 10), confidence)

\* result.confidence = totalFields > 0 ? successfulExtractions / totalFields : 0
resultConfidence(successfulExtractions, totalFields) ==
  IF totalFields > 0 THEN Rat(successfulExtractions, totalFields) ELSE RZero

\* the accumulated result once a rule's mapped value has been validated
storeField(rule, mappedValue, isValid, acc) ==
  LET stored == [f \in DOMAIN acc.extractedData \cup {rule.fieldName} |->
                   IF f = rule.fieldName THEN mappedValue ELSE acc.extractedData[f]]
  IN IF isValid
     THEN [acc EXCEPT !.extractedData = stored, !.successful = @ + 1]
     ELSE [acc EXCEPT !.extractedData = stored,
                      !.warnings = Append(@, <<"Validation failed", rule.fieldName>>)]

\* the accumulated result once extractField has returned or thrown
afterExtraction(template, rule, extractedValue, acc) ==
  CASE extractedValue.kind = "throw" ->
         [acc EXCEPT !.errors = Append(@, <<"Error extracting field", rule.fieldName>>)]
    [] extractedValue.kind = "null" ->
         IF isRequired(rule)
         THEN [acc EXCEPT !.errors =
                 Append(@, <<"Required field could not be extracted", rule.fieldName>>)]
         ELSE [acc EXCEPT !.warnings =
                 Append(@, <<"Optional field could not be extracted", rule.fieldName>>)]
    [] OTHER ->
         \* the mapped value, computed once and then validated and stored
         CHOOSE out \in
           {storeField(rule, mappedValue, validateField(rule, mappedValue).isValid, acc) :
              mappedValue \in {applyHardcodedMappings(template.hardcodedMappings,
                                                      rule.fieldName, extractedValue)}} : TRUE

\* one turn of the loop over the rules: the accumulated result acc after the rule
processRule(template, rule, text, extractedData, acc) ==
  CHOOSE out \in
    {afterExtraction(template, rule, extractedValue, before) :
       extractedValue \in {extractField(rule, text, extractedData)},
       before \in {acc}} : TRUE

RECURSIVE processRules(_, _, _, _, _)
processRules(template, rules, text, extractedData, acc) ==
  IF rules = <<>> THEN acc
  ELSE processRules(template, Tail(rules), text, extractedData,
                    processRule(template, Head(rules), text, extractedData, acc))

\* the ProcessingResult the loop's outcome makes
resultOf(acc, totalFields) ==
  [success |-> resultSuccess(acc.errors, resultConfidence(acc.successful, totalFields)),
   extractedData |-> acc.extractedData,
   confidence |-> resultConfidence(acc.successful, totalFields),
   errors |-> acc.errors,
   warnings |-> acc.warnings]

\* TemplateEngine.processDocument
engineProcessDocument(template, extractedText, extractedData) ==
  CHOOSE out \in
    {resultOf(acc, Len(template.extractionRules)) :
       acc \in {processRules(template, template.extractionRules, extractedText,
                             extractedData,
                             [extractedData |-> <<>>, errors |-> <<>>, warnings |-> <<>>,
                              successful |-> 0])}} : TRUE

\* twice the points one rule adds to a template's score
ruleScore2(rule, text) ==
  CASE rule.extractionType = "keyword" ->
         IF rule.keywordConfig # <<>>
            /\ \E k \in DOMAIN rule.keywordConfig[1].keywords :
                 includes(toLowerCase(text), toLowerCase(rule.keywordConfig[1].keywords[k]))
         THEN 2 ELSE 0
    [] rule.extractionType = "regex" ->
         IF rule.pattern # <<>> /\ rule.pattern \notin InvalidRegexes
            /\ includes(toLowerCase(text), toLowerCase(rule.pattern))
         THEN 2 ELSE 0
    [] rule.extractionType = "position" -> 1
    [] OTHER -> 0

S_invoice == <<"i", "n", "v", "o", "i", "c", "e">>

S_receipt == <<"r", "e", "c", "e", "i", "p", "t">>

S_statement == <<"s", "t", "a", "t", "e", "m", "e", "n", "t">>

\* twice the points of the three template-name checks
nameScore2(template, text) ==
  LET templateName == toLowerCase(template.name)
      both(word) == includes(templateName, word) /\ includes(toLowerCase(text), word)
  IN (IF both(S_invoice) THEN 4 ELSE 0)
     + (IF both(S_receipt) THEN 4 ELSE 0)
     + (IF both(S_statement) THEN 4 ELSE 0)

NameChecks == 3

scoreTemplate(template, text) ==
  LET rules == template.extractionRules
      score2 == SumSeq([i \in DOMAIN rules |-> ruleScore2(rules[i], text)])
                + nameScore2(template, text)
      totalChecks == Len(rules) + NameChecks
  IN Rat(score2, 2 * totalChecks)

RECURSIVE InsertByScore(_, _)
InsertByScore(sorted, x) ==
  IF sorted = <<>> THEN <<x>>
  ELSE IF RLt(Head(sorted).score, x.score) THEN <<x>> \o sorted
       ELSE <<Head(sorted)>> \o InsertByScore(Tail(sorted), x)

RECURSIVE SortByScore(_)
\* templateScores.sort((a, b) => b.score - a.score), a stable sort
SortByScore(scores) ==
  IF scores = <<>> THEN <<>>
  ELSE InsertByScore(SortByScore(SubSeq(scores, 1, Len(scores) - 1)), scores[Len(scores)])

SelectThreshold == Rat(3, 10)

\* selectTemplate on the cache (the loaded templates in the order of the Map):
\* <<>> for null, else the one-element sequence of the chosen template
selectTemplate(templates, customerId, extractedText) ==
  LET customerTemplates == SelectSeq(templates, LAMBDA t : t.customerId = customerId)
      templateScores ==
        SortByScore([i \in DOMAIN customerTemplates |->
                       [template |-> customerTemplates[i],
                        score |-> scoreTemplate(customerTemplates[i], extractedText)]])
  IN IF customerTemplates = <<>> THEN <<>>
     ELSE IF Len(customerTemplates) = 1 THEN <<customerTemplates[1]>>
     ELSE IF RLt(SelectThreshold, templateScores[1].score)
          THEN <<templateScores[1].template>>
          ELSE <<customerTemplates[1]>>

\* getTemplate(templateId): this.templates.get(templateId) || null
getTemplate(templates, templateId) ==
  SelectSeq(templates, LAMBDA t : t.id = templateId)

(***************************************************************************)
(* PDFProcessor (src/src/lib/template-engine.ts, 572-842).                 *)
(* A stored file is [fileName, direct, ocr]: what pdf-parse and what the   *)
(* OCR engine do with its bytes.  direct is [kind, text, numpages] with    *)
(* kind "text" or "throws"; ocr is [kind, text, confidence] with kind      *)
(* "text", "throws" or "hangs" and confidence in percent.                  *)
(***************************************************************************)
isAlphabetic(w) ==
  \A i \in DOMAIN w :
    \E j \in DOMAIN UpperCase : w[i] = UpperCase[j] \/ w[i] = LowerCase[j]

\* meaningfulWords.length / words.length > 0.5 (false for 0 / 0)
isTextMeaningful(text) ==
  LET words == SelectSeq(splitWords(text), LAMBDA w : Len(w) > 2)
      meaningfulWords == SelectSeq(words, isAlphabetic)
  IN Len(words) > 0 /\ 2 * Len(meaningfulWords) > Len(words)

DirectMinLength == 100

DirectConfidence == Rat(95, 100)

\* whether processPDF returns the direct extraction
directAccepted(file) ==
  /\ file.direct.kind = "text"
  /\ Len(file.direct.text) > DirectMinLength
  /\ isTextMeaningful(file.direct.text)

\* the ExtractedData processPDF returns from the direct path
directResult(file) ==
  [text |-> file.direct.text, totalPages |-> file.direct.numpages,
   confidence |-> DirectConfidence]

\* the ExtractedData extractTextWithOCR returns when recognize() resolves
ocrResult(file) ==
  [text |-> file.ocr.text, totalPages |-> 1, confidence |-> Rat(file.ocr.confidence, 100)]

RECURSIVE splitColumns(_, _)
\* line.split(/\s{2,}|\t+/): two or more white-space characters, or a tab, separate
splitColumns(s, cur) ==
  IF s = <<>> THEN <<cur>>
  ELSE IF Len(s) - Len(trimStart(s)) >= 2
       THEN <<cur>> \o splitColumns(trimStart(s), <<>>)
       ELSE IF Head(s) = "\t" THEN <<cur>> \o splitColumns(Tail(s), <<>>)
            ELSE splitColumns(Tail(s), Append(cur, Head(s)))

\* parseTableRow: the trimmed, non-empty columns of a line
parseTableRow(line) ==
  SelectSeq([i \in DOMAIN splitColumns(line, <<>>) |-> trim(splitColumns(line, <<>>)[i])],
            LAMBDA col : col # <<>>)

looksLikeTableRow(line) == Len(parseTableRow(line)) >= 2

MinTableRows == 2

RECURSIVE tablesOf(_, _)
\* extractTables: runs of consecutive table-like lines, kept when they have at
\* least two rows; current is the run being read
tablesOf(lines, current) ==
  LET done == IF Len(current) >= MinTableRows
              THEN <<[rows |-> current, headers |-> current[1]]>> ELSE <<>>
  IN IF lines = <<>> THEN done
     ELSE IF looksLikeTableRow(trim(Head(lines)))
          THEN tablesOf(Tail(lines), Append(current, parseTableRow(trim(Head(lines)))))
          ELSE done \o tablesOf(Tail(lines), <<>>)

extractTables(text) == tablesOf(splitLines(text), <<>>)

\* the first "Key: Value" or "Key = Value" of a line: <<key, value>> or <<>>
keyValueOf(line, sep) ==
  LET t == trim(line)
      i == indexOf(t, <<sep>>)
      key == SubSeq(t, 1, i)
      value == trim(SubSeq(t, i + 2, Len(t)))
  IN IF i >= 1 /\ value # <<>> THEN <<key, value>> ELSE <<>>

MaxValueLength == 200

\* key.trim().toLowerCase().replace(/\s+/g, '_')
keyName(key) ==
  LET sq == squeeze(toLowerCase(trim(key)))
  IN [i \in DOMAIN sq |-> IF sq[i] = " " THEN "_" ELSE sq[i]]

RECURSIVE keyValuePairsOf(_, _)
\* detectKeyValuePairs for lines of the forms "Key: Value" and "Key = Value": the
\* pairs in line order as <<key, value>>, a later line overwriting an earlier key
keyValuePairsOf(lines, acc) ==
  IF lines = <<>> THEN acc
  ELSE LET byColon == keyValueOf(Head(lines), ":")
           byEquals == keyValueOf(Head(lines), "=")
           kv == IF byColon # <<>> THEN byColon ELSE byEquals
           kept == kv # <<>> /\ Len(kv[2]) < MaxValueLength
           name == keyName(kv[1])
       IN keyValuePairsOf(Tail(lines),
            IF kept
            THEN Append(SelectSeq(acc, LAMBDA e : e[1] # name), <<name, kv[2]>>)
            ELSE acc)

detectKeyValuePairs(text) == keyValuePairsOf(splitLines(text), <<>>)

(***************************************************************************)
(* The data the orchestrator runs on: the customers and templates that     *)
(* initialize() loads, and the stored files of the documents.              *)
(***************************************************************************)
RECURSIVE repeat(_, _)
repeat(s, n) == IF n = 0 THEN <<>> ELSE s \o repeat(s, n - 1)

\* filler that makes a direct extraction longer than DirectMinLength
Filler == repeat(<<"l", "o", "r", "e", "m", " ", "i", "p", "s", "u", "m", " ", "d", "o", "l", "o", "r", " ">>, 6)

Customers ==
  <<[id |-> "c1", name |-> <<"A", "c", "m", "e", " ", "C", "o", "r", "p">>],
    [id |-> "c2", name |-> <<"G", "l", "o", "b", "e", "x">>]>>

Patterns ==
  [c \in {"c1", "c2"} |->
     IF c = "c1"
     THEN <<[type |-> "text", pattern |-> <<"A", "C", "M", "E">>, weight |-> 4, caseSensitive |-> FALSE],
            [type |-> "regex", pattern |-> <<"I", "N", "V", "-">>, weight |-> 2, caseSensitive |-> FALSE]>>
     ELSE <<>>]

NoValidation == <<>>

RuleTotal ==
  [fieldName |-> "total_amount", extractionType |-> "keyword", pattern |-> <<>>,
   position |-> <<>>, tableConfig |-> <<>>,
   keywordConfig |-> <<[keywords |-> <<<<"T", "o", "t", "a", "l", ":">>>>, searchRadius |-> 1,
                        direction |-> "same_line"]>>,
   calculationConfig |-> <<>>,
   validation |-> <<[dataType |-> "currency", required |-> TRUE, minLength |-> 0,
                     maxLength |-> 0, pattern |-> <<>>]>>]

RuleNumber ==
  [fieldName |-> "invoice_number", extractionType |-> "regex", pattern |-> <<"I", "N", "V", "-", "1">>,
   position |-> <<>>, tableConfig |-> <<>>, keywordConfig |-> <<>>,
   calculationConfig |-> <<>>, validation |-> NoValidation]

Templates ==
  <<[id |-> "t1", customerId |-> "c1", name |-> <<"A", "c", "m", "e", " ", "i", "n", "v", "o", "i", "c", "e">>,
     extractionRules |-> <<RuleTotal, RuleNumber>>,
     hardcodedMappings |-> <<>>]>>

TemplateIds == {"t1"}

NoTemplate == "none"

\* no customer is detected in it
FileUnknown ==
  [fileName |-> <<"s", "c", "a", "n", ".", "p", "d", "f">>,
   direct |-> [kind |-> "text", text |-> <<"H", "e", "l", "l", "o", " ", "w", "o", "r", "l", "d", "\n">> \o Filler, numpages |-> 1],
   ocr |-> [kind |-> "text", text |-> <<>>, confidence |-> 0]]

\* a customer without a template
FileGlobex ==
  [fileName |-> <<"d", "o", "c", ".", "p", "d", "f">>,
   direct |-> [kind |-> "text", text |-> <<"G", "l", "o", "b", "e", "x", " ", "s", "t", "a", "t", "e", "m", "e", "n", "t", "\n", "R", "e", "f", ":", " ", "7", "\n">> \o Filler,
               numpages |-> 2],
   ocr |-> [kind |-> "text", text |-> <<>>, confidence |-> 0]]

\* a scan: the direct text is too short, the OCR text fits the template
FileAcmeScan ==
  [fileName |-> <<"a", "c", "m", "e", ".", "p", "d", "f">>,
   direct |-> [kind |-> "text", text |-> <<"x">>, numpages |-> 1],
   ocr |-> [kind |-> "text", text |-> <<"A", "C", "M", "E", " ", "C", "o", "r", "p", "\n", "I", "N", "V", "-", "1", "\n", "T", "o", "t", "a", "l", ":", " ", "$", "2", "5", "0", ".", "0", "0">>,
            confidence |-> 80]]

\* the template's required field is missing
FileAcmePartial ==
  [fileName |-> <<"b", "i", "l", "l", ".", "p", "d", "f">>,
   direct |-> [kind |-> "text", text |-> <<"A", "C", "M", "E", " ", "C", "o", "r", "p", " ", "i", "n", "v", "o", "i", "c", "e", " ", "I", "N", "V", "-", "1", "\n">> \o Filler,
               numpages |-> 1],
   ocr |-> [kind |-> "text", text |-> <<>>, confidence |-> 0]]

\* pdf-parse rejects the bytes
FileCorrupt ==
  [fileName |-> <<"b", "a", "d", ".", "p", "d", "f">>,
   direct |-> [kind |-> "throws", text |-> <<>>, numpages |-> 0],
   ocr |-> [kind |-> "text", text |-> <<>>, confidence |-> 0]]

Files == {FileUnknown, FileGlobex, FileAcmeScan, FileAcmePartial, FileCorrupt}

Docs == 1..NumDocs

\* an id no document has
MissingDoc == 0

Runs == 1..MaxRuns

(***************************************************************************)
(* ProcessingOrchestrator (src/src/lib/template-engine.ts, 874-1363) and   *)
(* processDocumentAsync (src/src/app/api/upload/route.ts, 156-201).        *)
(***************************************************************************)
VARIABLES
  docFile,        \* the stored file of each document
  docStages,      \* what the stages of the pipeline compute from that file
  docs,           \* the document table: status, confidenceScore, customerId, templateId
  jobs,           \* the processingJob table, in creation order
  csvOutputs,     \* the csvOutput table, in creation order
  csvFiles,       \* the CSV files on disk: [path, by] with by the run that wrote last
  history,        \* the reprocessingHistory table, in creation order
  now,            \* the clock new Date() reads
  faults,         \* how many awaited operations have rejected or hung
  isInitialized,  \* ProcessingOrchestrator.isInitialized
  run,            \* the call each run is: [kind, doc, templateId, after]
  pc,             \* where each run is
  loc,            \* the locals of each run
  resp,           \* the ProcessingResponse each run builds
  pin,            \* the inputs of a run of the pure pipeline
  pout,           \* its outputs
  identifierPatterns, \* customer.identifierPatterns of each customer row
  patternCache,   \* CustomerDetector.patterns: the parsed patterns by customer id
  adds,           \* the calls of addCustomerPattern
  mappingTable,   \* the hardcodedMapping rows of one template, in creation order
  requests,       \* the requests to the mapping routes that are being served
  served,         \* how many requests the mapping routes have taken
  user,           \* the user row of one account
  logins,         \* the calls of authorize that are being served
  authLog         \* what the calls of authorize have done to the account so far

dbVars == <<docs, jobs, csvOutputs, csvFiles, history>>

runVars == <<run, pc, loc, resp>>

\* the detector's store and cache, and the calls that change them
detVars == <<identifierPatterns, patternCache, adds>>

\* the mapping routes
apiVars == <<mappingTable, requests, served>>

\* the credentials provider
authVars == <<user, logins, authLog>>

serviceVars == <<apiVars, authVars>>

\* what no step of the orchestrator changes
pureVars == <<pin, pout, detVars, serviceVars>>

vars == <<docFile, docStages, docs, jobs, csvOutputs, csvFiles, history, now, faults,
          isInitialized, run, pc, loc, resp, pin, pout, identifierPatterns, patternCache,
          adds, mappingTable, requests, served, user, logins, authLog>>

NoConfidence == <<>>

\* JSON.stringify of a DetectionPattern: a member that is undefined is left out
storedForm(p) ==
  [form |-> "object", type |-> <<p.type>>,
   pattern |-> IF p.pattern = Undefined THEN <<>> ELSE <<p.pattern>>,
   value |-> <<>>, weight |-> <<p.weight>>, caseSensitive |-> <<p.caseSensitive>>]

\* identifierPatterns as prisma.customer.update writes an array of patterns
storedArray(patterns) ==
  [format |-> "array", items |-> [k \in DOMAIN patterns |-> storedForm(patterns[k])]]

\* the customer rows whose patterns initialize() parses into Patterns
StoredPatterns == [c \in DOMAIN Patterns |-> storedArray(Patterns[c])]

\* the calls of addCustomerPattern
Adders == 1..MaxAdds

\* a call not made yet: [pc, customerId, pattern, currentPatterns, outcome], and
\* storedAtReturn, the customer's stored patterns as they are when the call returns
NoAdd ==
  [pc |-> "idle", customerId |-> NoCustomer, pattern |-> <<>>, currentPatterns |-> <<>>,
   outcome |-> "pending", storedAtReturn |-> <<>>]

\* the clients of the mapping routes
Clients == 1..MaxClients

\* the body of a request: an absent field is <<>>, a given one a one-element sequence
NoData == [fieldName |-> <<>>, sourcePattern |-> <<>>, isActive |-> <<>>]

\* a client with no request under way: [pc, kind, mappingId, data, status]
NoRequest == [pc |-> "idle", kind |-> "none", mappingId |-> 0, data |-> NoData, status |-> 0]

\* the callers of authorize
Callers == 1..MaxLogins

\* a caller with no call under way: [pc, valid, seen, outcome], seen the
\* failedAttempts of the user row the call read
NoLogin == [pc |-> "idle", valid |-> FALSE, seen |-> 0, outcome |-> "pending"]

\* a user row: lockedUntil = 0 stands for null
NewUser == [failedAttempts |-> 0, lockedUntil |-> 0, isActive |-> TRUE]

\* the record of the account: attempts, the calls made; streak, the failed password
\* attempts since the last successful login or the last lock; lockedOn, the streaks
\* at which a lock was set
NewAuthLog == [attempts |-> 0, streak |-> 0, lockedOn |-> {}]

ServiceInit ==
  /\ mappingTable = <<>>
  /\ requests = [q \in Clients |-> NoRequest]
  /\ served = 0
  /\ user = NewUser
  /\ logins = [l \in Callers |-> NoLogin]
  /\ authLog = NewAuthLog

\* nothing has been computed from the inputs yet
NoOutputs == [detection |-> <<>>, processing |-> <<>>, response |-> <<>>]

\* after: the calls that were over when this call was made
NoRun == [kind |-> "none", doc |-> MissingDoc, templateId |-> NoTemplate, after |-> {}]

NoLocals ==
  [job |-> 0, version |-> 0, path |-> "none", err |-> "none", outcome |-> "pending",
   branch |-> "none"]

\* const response = { success: false, confidence: 0, errors: [], ... }
NewResponse ==
  [success |-> FALSE, customerId |-> NoCustomer, templateId |-> NoTemplate,
   csvFilePath |-> <<>>, extractionDate |-> -1, hasData |-> FALSE,
   confidence |-> RZero, errors |-> <<>>, warnings |-> <<>>]

\* the caches are filled by initialize()
LoadedTemplates == IF isInitialized THEN Templates ELSE <<>>

\* the structured data the orchestrator hands to the engine: the tables, and
\* the other entries of the object (objects and arrays, opaque to the engine)
StructuredData(text) ==
  [tables |-> extractTables(text),
   fields |-> [k \in {"tables", "keyValuePairs", "dates", "numbers"} |-> VObj]]

\* the two ways processPDF gets the text
Paths == {"direct", "ocr"}

\* what the stages of processDocument compute is a function of the file and the
\* path alone: processPDF,
ExtractedOf ==
  [file \in Files |->
     [path \in Paths |-> IF path = "direct" THEN directResult(file) ELSE ocrResult(file)]]

\* customerDetector.detectCustomer(extractedData.text, request.fileName),
DetectionOf ==
  [file \in Files |->
     [path \in Paths |->
        detectCustomer(Customers, Patterns, ExtractedOf[file][path].text, file.fileName)]]

\* templateEngine.selectTemplate(customerDetection.customerId, extractedData.text),
SelectedOf ==
  [file \in Files |->
     [path \in Paths |->
        selectTemplate(Templates, DetectionOf[file][path].customerId,
                       ExtractedOf[file][path].text)]]

\* the tables handed to the engine,
StructuredOf ==
  [file \in Files |-> [path \in Paths |-> StructuredData(ExtractedOf[file][path].text)]]

\* templateEngine.processDocument(template, text, structuredData), when a template
\* was selected,
ProcessingOf ==
  [file \in Files |->
     [path \in Paths |->
        IF SelectedOf[file][path] = <<>> THEN <<>>
        ELSE <<engineProcessDocument(SelectedOf[file][path][1],
                                     ExtractedOf[file][path].text,
                                     StructuredOf[file][path])>>]]

\* and pdfProcessor.detectKeyValuePairs(extractedData.text) of createBasicCSV
PairsOf ==
  [file \in Files |-> [path \in Paths |-> detectKeyValuePairs(ExtractedOf[file][path].text)]]

\* all of it, for a file
Stages ==
  [file \in Files |->
     [path \in Paths |->
        [extracted |-> ExtractedOf[file][path],
         detection |-> DetectionOf[file][path],
         selected |-> SelectedOf[file][path],
         processing |-> ProcessingOf[file][path],
         pairs |-> PairsOf[file][path]]]]

\* what a run extracted, once loc.path says by which path
Extracted(r) == docStages[run[r].doc][loc[r].path].extracted

Detection(r) == docStages[run[r].doc][loc[r].path].detection

Selected(r) == docStages[run[r].doc][loc[r].path].selected

Processing(r) == docStages[run[r].doc][loc[r].path].processing[1]

\* response.confidence of the three branches
BasicConfidence == Rat(3, 10)

noTemplateConfidence(customerConfidence) == RMul(customerConfidence, Rat(5, 10))

templateConfidence(customerConfidence, processingConfidence) ==
  RMul(RAdd(customerConfidence, processingConfidence), Rat(1, 2))

\* basicData of createBasicCSV: the fixed entries, then the detected pairs
basicData(file, extracted, pairs, customerId, date) ==
  <<<<"document_name", file.fileName>>,
    <<"extraction_date", date>>,
    <<"total_pages", extracted.totalPages>>,
    <<"customer_id", IF customerId = NoCustomer THEN "unknown" ELSE customerId>>>>
  \o pairs

\* response.extractedData of a run that set it
ResponseData(r) ==
  LET stages == docStages[run[r].doc][loc[r].path]
  IN CASE loc[r].branch = "template" -> stages.processing[1].extractedData
       [] loc[r].branch = "noTemplate" ->
            basicData(docFile[run[r].doc], stages.extracted, stages.pairs,
                      stages.detection.customerId, resp[r].extractionDate)
       [] OTHER ->
            basicData(docFile[run[r].doc], stages.extracted, stages.pairs,
                      NoCustomer, resp[r].extractionDate)

(***************************************************************************)
(* The steps of a run.  A step is what happens between two awaits.         *)
(***************************************************************************)
Init ==
  /\ docFile \in [Docs -> Files]
  /\ docStages = [d \in Docs |-> Stages[docFile[d]]]
  /\ docs = [d \in Docs |->
               [status |-> "UPLOADED", confidenceScore |-> NoConfidence,
                customerId |-> NoCustomer, templateId |-> NoTemplate]]
  /\ jobs = <<>>
  /\ csvOutputs = <<>>
  /\ csvFiles = {}
  /\ history = <<>>
  /\ now = 0
  /\ faults = 0
  \* the orchestrator of a running server may have served other documents before
  /\ isInitialized \in BOOLEAN
  /\ run = [r \in Runs |-> NoRun]
  /\ pc = [r \in Runs |-> "idle"]
  /\ loc = [r \in Runs |-> NoLocals]
  /\ resp = [r \in Runs |-> NewResponse]
  /\ pin = <<>>
  /\ pout = NoOutputs
  /\ identifierPatterns = StoredPatterns
  /\ patternCache = Patterns
  /\ adds = [a \in Adders |-> NoAdd]
  /\ ServiceInit

\* runs are taken in order
NextRun(r) == pc[r] = "idle" /\ \A q \in Runs : q < r => pc[q] # "idle"

\* the calls that are over
Over == {q \in Runs : pc[q] = "done"}

\* POST /api/upload has stored the document; its background task starts
StartUpload(r, d) ==
  /\ NextRun(r)
  /\ docs[d].status = "UPLOADED"
  /\ \A q \in Runs : ~(run[q].kind = "upload" /\ run[q].doc = d)
  /\ run' = [run EXCEPT ![r] = [kind |-> "upload", doc |-> d, templateId |-> NoTemplate,
                             after |-> Over]]
  /\ pc' = [pc EXCEPT ![r] = "setProcessing"]
  /\ UNCHANGED <<docFile, docStages, dbVars, now, faults, isInitialized, loc, resp, pureVars>>

\* reprocessDocument(documentId, userId, templateId?) is called
StartReprocess(r, d, t) ==
  /\ NextRun(r)
  /\ run' = [run EXCEPT ![r] = [kind |-> "reprocess", doc |-> d, templateId |-> t,
                             after |-> Over]]
  /\ pc' = [pc EXCEPT ![r] = "findDocument"]
  /\ UNCHANGED <<docFile, docStages, dbVars, now, faults, isInitialized, loc, resp, pureVars>>

\* processDocumentAsync: document.update({ status: PROCESSING })
SetProcessing(r) ==
  /\ pc[r] = "setProcessing"
  /\ docs' = [docs EXCEPT ![run[r].doc].status = "PROCESSING"]
  /\ pc' = [pc EXCEPT ![r] = "createJob"]
  /\ UNCHANGED <<docFile, docStages, jobs, csvOutputs, csvFiles, history, now, faults,
                 isInitialized, run, loc, resp, pureVars>>

\* reprocessDocument: findUnique, readFile, getTemplate
FindDocument(r) ==
  /\ pc[r] = "findDocument"
  /\ IF run[r].doc \notin DOMAIN docs
     THEN /\ pc' = [pc EXCEPT ![r] = "done"]
          /\ loc' = [loc EXCEPT ![r].outcome = "threw", ![r].err = "Document not found"]
     ELSE /\ pc' = [pc EXCEPT ![r] =
                      IF run[r].templateId # NoTemplate
                         /\ getTemplate(LoadedTemplates, run[r].templateId) # <<>>
                      THEN "getNextVersion" ELSE "createJob"]
          /\ loc' = loc
  /\ UNCHANGED <<docFile, docStages, dbVars, now, faults, isInitialized, run, resp, pureVars>>

\* the versions of the history rows of a document
VersionsOf(d) == {history[i].version : i \in {j \in DOMAIN history : history[j].documentId = d}}

\* getNextVersion: (latestVersion?.version || 0) + 1
getNextVersion(d) ==
  IF VersionsOf(d) = {} THEN 1
  ELSE (CHOOSE v \in VersionsOf(d) : \A w \in VersionsOf(d) : v >= w) + 1

GetNextVersion(r) ==
  /\ pc[r] = "getNextVersion"
  /\ loc' = [loc EXCEPT ![r].version = getNextVersion(run[r].doc)]
  /\ pc' = [pc EXCEPT ![r] = "createHistory"]
  /\ UNCHANGED <<docFile, docStages, dbVars, now, faults, isInitialized, run, resp, pureVars>>

\* reprocessingHistory.create
CreateHistory(r) ==
  /\ pc[r] = "createHistory"
  /\ history' = Append(history,
                       [documentId |-> run[r].doc, version |-> loc[r].version,
                        templateId |-> run[r].templateId, by |-> r])
  /\ pc' = [pc EXCEPT ![r] = "createJob"]
  /\ UNCHANGED <<docFile, docStages, docs, jobs, csvOutputs, csvFiles, now, faults,
                 isInitialized, run, loc, resp, pureVars>>

\* processDocument: processingJob.create({ status: RUNNING })
CreateJob(r) ==
  /\ pc[r] = "createJob"
  /\ jobs' = Append(jobs,
                    [documentId |-> run[r].doc, status |-> "RUNNING", startedAt |-> now,
                     completedAt |-> -1, errorMessage |-> "none",
                     extractionLog |-> NoConfidence, by |-> r])
  /\ loc' = [loc EXCEPT ![r].job = Len(jobs) + 1]
  /\ pc' = [pc EXCEPT ![r] = "extract"]
  /\ UNCHANGED <<docFile, docStages, docs, csvOutputs, csvFiles, history, now, faults,
                 isInitialized, run, resp, pureVars>>

MinTextLength == 10

\* the length check on the extracted text, detectCustomer and selectTemplate, none
\* of which reads or writes what another run shares: the run goes on to the first
\* write of its branch
Detect(r, path) ==
  LET stages == docStages[run[r].doc][path]
      branch == IF stages.detection.customerId = NoCustomer THEN "noCustomer"
                ELSE IF stages.selected = <<>> THEN "noTemplate"
                ELSE "template"
  IN IF Len(stages.extracted.text) < MinTextLength
     THEN /\ pc' = [pc EXCEPT ![r] = "catch"]
          /\ loc' = [loc EXCEPT ![r].path = path,
                                ![r].err = "Insufficient text extracted from PDF"]
          /\ resp' = resp
     ELSE /\ loc' = [loc EXCEPT ![r].path = path, ![r].branch = branch]
          /\ pc' = [pc EXCEPT ![r] =
                      CASE branch = "noCustomer" -> "unknownDocUpdate"
                        [] branch = "noTemplate" -> "basicCsv"
                        [] OTHER -> "templateCsv"]
          /\ resp' = [resp EXCEPT ![r].warnings =
                        CASE branch = "noCustomer" ->
                               Append(@, "Could not automatically detect customer")
                          [] branch = "noTemplate" ->
                               Append(@, "No template found for detected customer")
                          [] OTHER -> @]

\* initialize(), then processPDF up to the decision between the direct text and OCR
Extract(r) ==
  /\ pc[r] = "extract"
  /\ isInitialized' = TRUE
  /\ LET file == docFile[run[r].doc]
     IN IF file.direct.kind = "throws"
        THEN /\ pc' = [pc EXCEPT ![r] = "catch"]
             /\ loc' = [loc EXCEPT ![r].err = "PDF processing failed"]
             /\ resp' = resp
        ELSE IF directAccepted(file)
        THEN Detect(r, "direct")
        ELSE /\ pc' = [pc EXCEPT ![r] = "ocr"]
             /\ loc' = loc
             /\ resp' = resp
  /\ UNCHANGED <<docFile, docStages, dbVars, now, faults, run, pureVars>>

\* tesseractWorker.recognize(buffer) resolves
OcrReturns(r) ==
  /\ pc[r] = "ocr"
  /\ Detect(r, "ocr")
  /\ UNCHANGED <<docFile, docStages, dbVars, now, faults, isInitialized, run, pureVars>>

\* tesseractWorker.recognize(buffer) never settles: the run waits for ever
OcrHangs(r) ==
  /\ pc[r] = "ocr"
  /\ faults < MaxFaults
  /\ faults' = faults + 1
  /\ pc' = [pc EXCEPT ![r] = "ocrHung"]
  /\ UNCHANGED <<docFile, docStages, dbVars, now, isInitialized, run, loc, resp, pureVars>>

\* no customer: document.update({ status: COMPLETED, confidenceScore: 0 })
UnknownDocUpdate(r) ==
  /\ pc[r] = "unknownDocUpdate"
  /\ docs' = [docs EXCEPT ![run[r].doc].status = "COMPLETED",
                          ![run[r].doc].confidenceScore = RZero]
  /\ pc' = [pc EXCEPT ![r] = "basicCsv"]
  /\ UNCHANGED <<docFile, docStages, jobs, csvOutputs, csvFiles, history, now, faults,
                 isInitialized, run, loc, resp, pureVars>>

\* the path generateCSV writes: the file name without ".pdf", then the time stamp
csvPath(fileName, timestamp) == <<fileName, timestamp>>

\* csvWriter.writeRecords: the file at the path is written by run r
writeCsv(path, r) == {f \in csvFiles : f.path # path} \cup {[path |-> path, by |-> r]}

\* the clock has not gone back since it was last read
ClockReads == now..Min(now + 1, MaxClock)

\* createBasicCSV and the response of the two branches without a template
BasicCsv(r) ==
  /\ pc[r] = "basicCsv"
  /\ \E t \in ClockReads :
       /\ now' = t
       /\ csvFiles' = writeCsv(csvPath(docFile[run[r].doc].fileName, t), r)
       /\ resp' = [resp EXCEPT
            ![r].csvFilePath = <<csvPath(docFile[run[r].doc].fileName, t)>>,
            ![r].extractionDate = t,
            ![r].hasData = TRUE,
            ![r].confidence =
               IF loc[r].branch = "noCustomer" THEN BasicConfidence
               ELSE noTemplateConfidence(Detection(r).confidence),
            ![r].success = TRUE]
  /\ pc' = [pc EXCEPT ![r] = "jobUpdate"]
  /\ UNCHANGED <<docFile, docStages, docs, jobs, csvOutputs, history, faults, isInitialized,
                 run, loc, pureVars>>

\* templateEngine.processDocument, generateCSV and the update of the response
TemplateCsv(r) ==
  /\ pc[r] = "templateCsv"
  /\ \E t \in ClockReads :
       /\ now' = t
       /\ csvFiles' = writeCsv(csvPath(docFile[run[r].doc].fileName, t), r)
       /\ resp' = [resp EXCEPT
            ![r].success = Processing(r).success,
            ![r].customerId = Detection(r).customerId,
            ![r].templateId = Selected(r)[1].id,
            ![r].csvFilePath = <<csvPath(docFile[run[r].doc].fileName, t)>>,
            ![r].hasData = TRUE,
            ![r].confidence =
               templateConfidence(Detection(r).confidence, Processing(r).confidence),
            ![r].errors = Processing(r).errors,
            ![r].warnings = @ \o Processing(r).warnings]
  /\ pc' = [pc EXCEPT ![r] = "templateDocUpdate"]
  /\ UNCHANGED <<docFile, docStages, docs, jobs, csvOutputs, history, faults, isInitialized,
                 run, loc, pureVars>>

\* status: response.success ? COMPLETED : FAILED
statusOf(success) == IF success THEN "COMPLETED" ELSE "FAILED"

\* template branch: document.update({ customerId, templateId, status, confidenceScore })
TemplateDocUpdate(r) ==
  /\ pc[r] = "templateDocUpdate"
  /\ docs' = [docs EXCEPT ![run[r].doc] =
                [status |-> statusOf(resp[r].success),
                 confidenceScore |-> resp[r].confidence,
                 customerId |-> resp[r].customerId,
                 templateId |-> resp[r].templateId]]
  /\ pc' = [pc EXCEPT ![r] = "createCsvOutput"]
  /\ UNCHANGED <<docFile, docStages, jobs, csvOutputs, csvFiles, history, now, faults,
                 isInitialized, run, loc, resp, pureVars>>

\* whether the template branch records the CSV file: if (csvFilePath)
recordsCsvOutput(response) == response.csvFilePath # <<>>

\* template branch: fs.stat and csvOutput.create
CreateCsvOutput(r) ==
  /\ pc[r] = "createCsvOutput"
  /\ csvOutputs' =
       IF recordsCsvOutput(resp[r])
       THEN Append(csvOutputs,
                   [documentId |-> run[r].doc, filePath |-> resp[r].csvFilePath[1],
                    job |-> loc[r].job, by |-> r])
       ELSE csvOutputs
  /\ pc' = [pc EXCEPT ![r] = "jobUpdate"]
  /\ UNCHANGED <<docFile, docStages, docs, jobs, csvFiles, history, now, faults,
                 isInitialized, run, loc, resp, pureVars>>

\* an update that is for the first job of the table
firstJob(r) == 1

\* where: { id: job.id }: the job a run's updates are for
updatedJob(r) == loc[r].job

\* the end of the try block: processingJob.update({ status, completedAt, extractionLog })
JobUpdate(r) ==
  /\ pc[r] = "jobUpdate"
  /\ jobs' = [jobs EXCEPT ![updatedJob(r)].status = statusOf(resp[r].success),
                          ![updatedJob(r)].completedAt = now,
                          ![updatedJob(r)].extractionLog = resp[r].confidence]
  /\ pc' = [pc EXCEPT ![r] = "done"]
  /\ loc' = [loc EXCEPT ![r].outcome = "returned"]
  /\ UNCHANGED <<docFile, docStages, docs, csvOutputs, csvFiles, history, now, faults,
                 isInitialized, run, resp, pureVars>>

\* the steps of the try block that await an operation which may reject
TrySteps ==
  {"extract", "ocr", "unknownDocUpdate", "basicCsv", "templateCsv",
   "templateDocUpdate", "createCsvOutput", "jobUpdate"}

\* the awaits outside the try block of processDocument
BareSteps == {"findDocument", "getNextVersion", "createHistory", "createJob",
              "catch", "catchDocUpdate"}

\* the message of the exception an awaited operation of a step rejects with
RejectionOf(step) ==
  CASE step = "extract" -> "Template engine initialization failed"
    [] step = "ocr" -> "PDF processing failed"
    [] step \in {"basicCsv", "templateCsv"} -> "CSV generation failed"
    [] OTHER -> "database error"

\* where control goes when processDocument or reprocessDocument throws
AfterThrow(r) == IF run[r].kind = "upload" THEN "asyncCatch" ELSE "done"

\* an awaited operation rejects: inside the try block the catch block takes over,
\* outside of it the exception leaves processDocument
AwaitRejects(r) ==
  /\ pc[r] \in TrySteps \cup BareSteps \cup {"setProcessing"}
  /\ faults < MaxFaults
  /\ faults' = faults + 1
  /\ IF pc[r] \in TrySteps
     THEN /\ pc' = [pc EXCEPT ![r] = "catch"]
          /\ loc' = [loc EXCEPT ![r].err = RejectionOf(pc[r])]
     ELSE /\ pc' = [pc EXCEPT ![r] = IF pc[r] = "setProcessing" THEN "asyncCatch"
                                      ELSE AfterThrow(r)]
          /\ loc' = [loc EXCEPT ![r].outcome =
                       IF pc[r] = "setProcessing" THEN @ ELSE "threw"]
  /\ UNCHANGED <<docFile, docStages, dbVars, now, isInitialized, run, resp, pureVars>>

\* catch (error): errors.push(error.message), processingJob.update({ status: FAILED,
\* errorMessage })
Catch(r) ==
  /\ pc[r] = "catch"
  /\ resp' = [resp EXCEPT ![r].errors = Append(@, loc[r].err)]
  /\ jobs' = [jobs EXCEPT ![updatedJob(r)].status = "FAILED",
                          ![updatedJob(r)].errorMessage = loc[r].err,
                          ![updatedJob(r)].completedAt = now]
  /\ pc' = [pc EXCEPT ![r] = "catchDocUpdate"]
  /\ UNCHANGED <<docFile, docStages, docs, csvOutputs, csvFiles, history, now, faults,
                 isInitialized, run, loc, pureVars>>

\* catch (error): document.update({ status: FAILED }), then the response is returned
CatchDocUpdate(r) ==
  /\ pc[r] = "catchDocUpdate"
  /\ docs' = [docs EXCEPT ![run[r].doc].status = "FAILED"]
  /\ pc' = [pc EXCEPT ![r] = "done"]
  /\ loc' = [loc EXCEPT ![r].outcome = "returned"]
  /\ UNCHANGED <<docFile, docStages, jobs, csvOutputs, csvFiles, history, now, faults,
                 isInitialized, run, resp, pureVars>>

\* processDocumentAsync's catch: document.update({ status: FAILED }).catch(...)
AsyncCatch(r) ==
  /\ pc[r] = "asyncCatch"
  /\ \/ docs' = [docs EXCEPT ![run[r].doc].status = "FAILED"] /\ faults' = faults
     \/ faults < MaxFaults /\ faults' = faults + 1 /\ docs' = docs
  /\ pc' = [pc EXCEPT ![r] = "done"]
  /\ UNCHANGED <<docFile, docStages, jobs, csvOutputs, csvFiles, history, now,
                 isInitialized, run, loc, resp, pureVars>>

Step(r) ==
  \/ SetProcessing(r)
  \/ FindDocument(r)
  \/ GetNextVersion(r)
  \/ CreateHistory(r)
  \/ CreateJob(r)
  \/ Extract(r)
  \/ OcrReturns(r)
  \/ OcrHangs(r)
  \/ UnknownDocUpdate(r)
  \/ BasicCsv(r)
  \/ TemplateCsv(r)
  \/ TemplateDocUpdate(r)
  \/ CreateCsvOutput(r)
  \/ JobUpdate(r)
  \/ AwaitRejects(r)
  \/ Catch(r)
  \/ CatchDocUpdate(r)
  \/ AsyncCatch(r)

Next ==
  \/ \E r \in Runs, d \in Docs : StartUpload(r, d)
  \/ \E r \in Runs, d \in Docs \cup {MissingDoc}, t \in TemplateIds \cup {NoTemplate} :
       StartReprocess(r, d, t)
  \/ \E r \in Runs : Step(r)

Spec == Init /\ [][Next]_vars

(***************************************************************************)
(* The confidences as functions of their inputs: the detector, the engine  *)
(* and the orchestrator's response applied to inputs drawn at the start.   *)
(***************************************************************************)
\* the largest weight of a pattern, in halves
MaxWeight == 3

PureWeights == {0, 1, MaxWeight}

PurePatterns(w1, w2) ==
  [c \in {"c1", "c2"} |->
     IF c = "c1"
     THEN <<[type |-> "text", pattern |-> <<"A", "C", "M", "E">>, weight |-> w1, caseSensitive |-> FALSE],
            [type |-> "regex", pattern |-> <<"I", "N", "V", "-">>, weight |-> w2, caseSensitive |-> FALSE],
            [type |-> "header", pattern |-> <<"C", "o", "r", "p">>, weight |-> w1, caseSensitive |-> TRUE]>>
     ELSE <<>>]

PureTexts ==
  {<<>>, <<"a", "c", "m", "e">>, <<"G", "l", "o", "b", "e", "x", "\n", "R", "e", "f", ":", " ", "7">>, <<"A", "C", "M", "E", " ", "C", "o", "r", "p", "\n", "I", "N", "V", "-", "1", "\n", "T", "o", "t", "a", "l", ":", " ", "$", "2", "5", "0", ".", "0", "0">>, <<"A", "C", "M", "E", " ", "C", "o", "r", "p", "\n", "I", "N", "V", "-", "1">>}

\* no file name, one that names the customer and its patterns, one that names nothing
PureFileNames == {<<>>, <<"a", "c", "m", "e", "_", "c", "o", "r", "p", "_", "i", "n", "v", "-", "1", ".", "p", "d", "f">>, <<"d", "o", "c", ".", "p", "d", "f">>}

PureRuleSets == {<<>>, <<RuleTotal>>, <<RuleNumber>>, <<RuleTotal, RuleNumber>>}

PureInputs ==
  [patterns : {PurePatterns(w1, w2) : w1 \in PureWeights, w2 \in PureWeights},
   text : PureTexts,
   fileName : PureFileNames,
   rules : PureRuleSets]

PureInit ==
  /\ docFile = [d \in Docs |-> FileUnknown]
  /\ docStages = [d \in Docs |-> Stages[FileUnknown]]
  /\ docs = [d \in Docs |->
               [status |-> "UPLOADED", confidenceScore |-> NoConfidence,
                customerId |-> NoCustomer, templateId |-> NoTemplate]]
  /\ jobs = <<>>
  /\ csvOutputs = <<>>
  /\ csvFiles = {}
  /\ history = <<>>
  /\ now = 0
  /\ faults = 0
  /\ isInitialized = TRUE
  /\ run = [r \in Runs |-> NoRun]
  /\ pc = [r \in Runs |-> "idle"]
  /\ loc = [r \in Runs |-> NoLocals]
  /\ resp = [r \in Runs |-> NewResponse]
  /\ pin \in PureInputs
  /\ pout = NoOutputs
  /\ identifierPatterns = StoredPatterns
  /\ patternCache = pin.patterns
  /\ adds = [a \in Adders |-> NoAdd]
  /\ ServiceInit

orchVars == <<docFile, docStages, docs, jobs, csvOutputs, csvFiles, history, now, faults,
              isInitialized, run, pc, loc, resp, detVars, serviceVars>>

\* the template the input's rules make
PureTemplate == [Templates[1] EXCEPT !.extractionRules = pin.rules]

\* customerDetector.detectCustomer(extractedText, fileName)
ApplyDetectCustomer ==
  /\ pout.detection = <<>>
  /\ pout' = [pout EXCEPT !.detection =
                <<detectCustomer(Customers, pin.patterns, pin.text, pin.fileName)>>]
  /\ UNCHANGED <<orchVars, pin>>

\* templateEngine.processDocument(template, text, structuredData)
ApplyProcessDocument ==
  /\ pout.processing = <<>>
  /\ pout' = [pout EXCEPT !.processing =
                <<engineProcessDocument(PureTemplate, pin.text, StructuredData(pin.text))>>]
  /\ UNCHANGED <<orchVars, pin>>

\* response.confidence of processDocument, by the branch the detection takes
responseConfidence(detection, selected, processing) ==
  IF detection.customerId = NoCustomer THEN BasicConfidence
  ELSE IF selected = <<>> THEN noTemplateConfidence(detection.confidence)
  ELSE templateConfidence(detection.confidence, processing.confidence)

ApplyResponse ==
  /\ pout.detection # <<>>
  /\ pout.processing # <<>>
  /\ pout.response = <<>>
  /\ pout' = [pout EXCEPT !.response =
                <<responseConfidence(
                    pout.detection[1],
                    selectTemplate(<<PureTemplate>>, pout.detection[1].customerId, pin.text),
                    pout.processing[1])>>]
  /\ UNCHANGED <<orchVars, pin>>

PureNext ==
  \/ ApplyDetectCustomer
  \/ ApplyProcessDocument
  \/ ApplyResponse

PureSpec == PureInit /\ [][PureNext]_vars

(***************************************************************************)
(* The detector on its own: detectCustomer on the cached patterns, and     *)
(* addCustomerPattern (src/src/lib/customer-detector.ts, 279-306) changing *)
(* the stored and the cached patterns.                                     *)
(***************************************************************************)
\* an id no customer row has
MissingCustomer == "c9"

\* an object of a stored pattern array
RawPattern(type, pattern, weight) ==
  [form |-> "object", type |-> <<type>>, pattern |-> <<pattern>>, value |-> <<>>,
   weight |-> <<weight>>, caseSensitive |-> <<>>]

\* what customer c1 may have stored: patterns of two types, a string and an invalid
\* expression, a pattern that is the empty string, the object format, nothing, and
\* text and regex patterns of which a document matches a part of the weight
StoredVariants ==
  {[format |-> "array", items |-> <<RawPattern("text", <<"A", "C", "M", "E">>, 4), RawPattern("regex", <<"I", "N", "V", "-">>, 2)>>],
   [format |-> "array", items |-> <<[form |-> "string", s |-> <<"A", "C", "M", "E">>], RawPattern("regex", <<"(">>, 2)>>],
   [format |-> "array", items |-> <<RawPattern("text", <<>>, 2)>>],
   [format |-> "object", items |-> <<[key |-> <<"c", "o", "m", "p", "a", "n", "y", "N", "a", "m", "e">>, value |-> <<"A", "C", "M", "E", " ", "C", "o", "r", "p">>],
                                     [key |-> <<"r", "e", "g", "e", "x", "C", "o", "d", "e">>, value |-> <<"I", "N", "V", "-">>]>>],
   [format |-> "array", items |-> <<>>],
   [format |-> "array", items |-> <<RawPattern("text", <<"a", "c", "m", "e">>, 5), RawPattern("text", <<"P", "O", "-">>, 4),
                                    RawPattern("regex", <<"a", "c", "m", "e">>, 3), RawPattern("regex", <<"P", "O", "-">>, 2)>>]}

\* the cached customers, in cache order
CustomerLists ==
  {<<[id |-> "c1", name |-> <<"A", "c", "m", "e", " ", "C", "o", "r", "p">>], [id |-> "c2", name |-> <<"G", "l", "o", "b", "e", "x">>]>>,
   <<[id |-> "c2", name |-> <<"G", "l", "o", "b", "e", "x">>], [id |-> "c1", name |-> <<"A", "c", "m", "e", " ", "C", "o", "r", "p">>]>>,
   <<[id |-> "c1", name |-> <<"A", "c", "m", "e", " ", "C", "o">>], [id |-> "c2", name |-> <<"A", "c", "m", "e", " ", "C", "o", "r", "p">>]>>}

DetectorTexts == {<<>>, <<"a", "c", "m", "e">>, <<"A", "C", "M", "E", " ", "C", "o", "r", "p", "\n", "I", "N", "V", "-", "1">>, <<"G", "l", "o", "b", "e", "x", " ", "7">>}

DetectorFileNames == {<<>>, <<"a", "c", "m", "e", "_", "i", "n", "v", "-", "1", ".", "p", "d", "f">>}

\* the pattern each call of addCustomerPattern adds
AddedPattern(a) ==
  IF a = 1 THEN [type |-> "text", pattern |-> <<"c", "o", "r", "p">>, weight |-> 2, caseSensitive |-> FALSE]
  ELSE [type |-> "regex", pattern |-> <<"i", "n", "v">>, weight |-> 4, caseSensitive |-> FALSE]

\* initialize() has loaded the customers and parsed their stored patterns
DetectorInit ==
  /\ docFile = [d \in Docs |-> FileUnknown]
  /\ docStages = [d \in Docs |-> Stages[FileUnknown]]
  /\ docs = [d \in Docs |->
               [status |-> "UPLOADED", confidenceScore |-> NoConfidence,
                customerId |-> NoCustomer, templateId |-> NoTemplate]]
  /\ jobs = <<>>
  /\ csvOutputs = <<>>
  /\ csvFiles = {}
  /\ history = <<>>
  /\ now = 0
  /\ faults = 0
  /\ isInitialized = TRUE
  /\ run = [r \in Runs |-> NoRun]
  /\ pc = [r \in Runs |-> "idle"]
  /\ loc = [r \in Runs |-> NoLocals]
  /\ resp = [r \in Runs |-> NewResponse]
  /\ pin \in [customers : CustomerLists, text : DetectorTexts, fileName : DetectorFileNames]
  /\ pout = NoOutputs
  /\ \E stored \in StoredVariants :
       identifierPatterns = [c \in {"c1", "c2"} |->
                               IF c = "c1" THEN stored ELSE storedArray(<<>>)]
  /\ patternCache = [c \in {"c1", "c2"} |-> parseIdentifierPatterns(identifierPatterns[c])]
  /\ adds = [a \in Adders |-> NoAdd]
  /\ ServiceInit

pipelineVars == <<docFile, docStages, docs, jobs, csvOutputs, csvFiles, history, now, faults,
                  isInitialized, run, pc, loc, resp, serviceVars>>

\* customerDetector.detectCustomer(text, fileName) on the cache as it is now
DetectCustomer ==
  /\ pout.detection = <<>>
  /\ pout' = [pout EXCEPT !.detection =
                <<callDetectCustomer(pin.customers, patternCache, pin.text, pin.fileName)>>]
  /\ UNCHANGED <<pipelineVars, pin, detVars>>

\* addCustomerPattern(customerId, pattern): prisma.customer.findUnique resolves; the
\* call throws 'Customer not found', or parses the stored patterns and pushes the new
\* one onto the local array
FindCustomer(a, customerId) ==
  /\ adds[a].pc = "idle"
  /\ \A b \in Adders : b < a => adds[b].pc # "idle"
  /\ adds' = [adds EXCEPT ![a] =
       IF customerId \in DOMAIN identifierPatterns
       THEN [pc |-> "update", customerId |-> customerId, pattern |-> AddedPattern(a),
             currentPatterns |->
               Append(parseIdentifierPatterns(identifierPatterns[customerId]),
                      AddedPattern(a)),
             outcome |-> "pending", storedAtReturn |-> <<>>]
       ELSE [pc |-> "done", customerId |-> customerId, pattern |-> AddedPattern(a),
             currentPatterns |-> <<>>, outcome |-> "threw", storedAtReturn |-> <<>>]]
  /\ UNCHANGED <<pipelineVars, pin, pout, identifierPatterns, patternCache>>

\* prisma.customer.update({ data: { identifierPatterns: currentPatterns } }) is done
UpdateCustomer(a) ==
  /\ adds[a].pc = "update"
  /\ identifierPatterns' =
       [identifierPatterns EXCEPT ![adds[a].customerId] = storedArray(adds[a].currentPatterns)]
  /\ adds' = [adds EXCEPT ![a].pc = "setPatterns"]
  /\ UNCHANGED <<pipelineVars, pin, pout, patternCache>>

\* the update rejects: the catch block rethrows
UpdateRejects(a) ==
  /\ adds[a].pc = "update"
  /\ adds' = [adds EXCEPT ![a].pc = "done", ![a].outcome = "threw"]
  /\ UNCHANGED <<pipelineVars, pin, pout, identifierPatterns, patternCache>>

\* this.patterns.set(customerId, currentPatterns)
SetPatterns(a) ==
  /\ adds[a].pc = "setPatterns"
  /\ patternCache' = [patternCache EXCEPT ![adds[a].customerId] = adds[a].currentPatterns]
  /\ adds' = [adds EXCEPT ![a].pc = "done", ![a].outcome = "returned",
                          ![a].storedAtReturn = <<identifierPatterns[adds[a].customerId]>>]
  /\ UNCHANGED <<pipelineVars, pin, pout, identifierPatterns>>

DetectorNext ==
  \/ DetectCustomer
  \/ \E a \in Adders, customerId \in {"c1", MissingCustomer} : FindCustomer(a, customerId)
  \/ \E a \in Adders : UpdateCustomer(a)
  \/ \E a \in Adders : UpdateRejects(a)
  \/ \E a \in Adders : SetPatterns(a)

DetectorSpec == DetectorInit /\ [][DetectorNext]_vars

(***************************************************************************)
(* The stages on their own: processPDF, the loading of the templates with  *)
(* their mappings, selectTemplate, applyHardcodedMappings and the engine's *)
(* processDocument, each applied to an input drawn from a bounded set.     *)
(***************************************************************************)
\* PDFProcessor.processPDF: what it returns, that it threw, or that it never settles
processPDF(file) ==
  IF file.direct.kind = "throws"
  THEN [kind |-> "threw", data |-> <<>>]
  ELSE IF directAccepted(file) THEN [kind |-> "returned", data |-> <<directResult(file)>>]
  ELSE CASE file.ocr.kind = "text" -> [kind |-> "returned", data |-> <<ocrResult(file)>>]
         [] file.ocr.kind = "throws" -> [kind |-> "threw", data |-> <<>>]
         [] OTHER -> [kind |-> "hangs", data |-> <<>>]

\* the orders a query may return rows in
Orders(rows) ==
  {s \in [DOMAIN rows -> Range(rows)] : \A i, j \in DOMAIN rows : i # j => s[i] # s[j]}

\* rows left in whatever order they are stored
isAnyOrder(mappings) == TRUE

\* hardcodedMappings: { orderBy: { priority: 'desc' } }
isPriorityOrder(mappings) ==
  \A i, j \in DOMAIN mappings : i < j => mappings[i].priority >= mappings[j].priority

\* hardcodedMappings: { where: { isActive: true }, orderBy: { priority: 'desc' } }: the
\* lists a template may hold after initialize(), rows of equal priority in any order
loadedMappings(rows) ==
  {s \in Orders(SelectSeq(rows, LAMBDA m : m.isActive)) : isPriorityOrder(s)}

\* documentTemplate.findMany({ where: { isActive: true } }) has no orderBy: the Map
\* holds the templates in the order the query returned them
loadedTemplates(rows) == Orders(rows)

EngineFiles ==
  {[fileName |-> <<"f", ".", "p", "d", "f">>, direct |-> d, ocr |-> o] :
     d \in {[kind |-> "throws", text |-> <<>>, numpages |-> 0],
            [kind |-> "text", text |-> <<"x">>, numpages |-> 1],
            [kind |-> "text", text |-> <<>>, numpages |-> 1],
            [kind |-> "text", text |-> <<"H", "e", "l", "l", "o", " ", "w", "o", "r", "l", "d", "\n">> \o Filler, numpages |-> 1]},
     o \in {[kind |-> "text", text |-> <<"A", "C", "M", "E", " ", "C", "o", "r", "p", "\n", "I", "N", "V", "-", "1">>, confidence |-> 80],
            [kind |-> "text", text |-> <<>>, confidence |-> 0],
            [kind |-> "throws", text |-> <<>>, confidence |-> 0]}}

RulePosition(fieldName, y, required) ==
  [fieldName |-> fieldName, extractionType |-> "position", pattern |-> <<>>,
   position |-> <<[page |-> 1, y |-> y, height |-> 1]>>, tableConfig |-> <<>>,
   keywordConfig |-> <<>>, calculationConfig |-> <<>>,
   validation |-> <<[dataType |-> "string", required |-> required, minLength |-> 0,
                     maxLength |-> 0, pattern |-> <<>>]>>]

\* templates of customer c1 that selectTemplate scores
EngineTemplates ==
  <<[id |-> "t1", customerId |-> "c1", name |-> <<"A", "c", "m", "e", " ", "i", "n", "v", "o", "i", "c", "e">>,
     extractionRules |-> <<RuleTotal, RuleNumber>>, hardcodedMappings |-> <<>>],
    [id |-> "t2", customerId |-> "c1", name |-> <<"A", "c", "m", "e", " ", "r", "e", "c", "e", "i", "p", "t">>,
     extractionRules |-> <<RuleNumber>>, hardcodedMappings |-> <<>>],
    [id |-> "t3", customerId |-> "c1", name |-> <<"A", "c", "m", "e", " ", "i", "n", "v", "o", "i", "c", "e", " ", "v", "2">>,
     extractionRules |-> <<RuleTotal, RuleNumber>>, hardcodedMappings |-> <<>>]>>

EngineTemplateSets ==
  {<<EngineTemplates[1]>>, <<EngineTemplates[1], EngineTemplates[2]>>,
   <<EngineTemplates[1], EngineTemplates[3]>>,
   <<EngineTemplates[1], EngineTemplates[2], EngineTemplates[3]>>}

EngineTexts ==
  {<<>>, <<"z", "z", "z">>, <<"A", "C", "M", "E", " ", "i", "n", "v", "o", "i", "c", "e", "\n", "I", "N", "V", "-", "1", "\n", "T", "o", "t", "a", "l", ":", " ", "$", "2", "5", "0", ".", "0", "0">>, <<"A", "C", "M", "E", " ", "r", "e", "c", "e", "i", "p", "t", "\n", "I", "N", "V", "-", "1">>,
   <<"A", "m", "o", "u", "n", "t", ":", " ", "5", "\n", "T", "o", "t", "a", "l", ":", " ", "7", "\n", "I", "N", "V", "-", "1">>}

Mapping(sourcePattern, targetValue, priority, isActive) ==
  [fieldName |-> "category", sourcePattern |-> sourcePattern, targetValue |-> targetValue,
   priority |-> priority, isActive |-> isActive]

\* the hardcodedMapping rows of a template, in the order they are stored
MappingRows ==
  {<<Mapping(<<"f", "r", "e", "i", "*">>, <<"S", "H", "I", "P", "P", "I", "N", "G", "_", "C", "O", "S", "T">>, 5, TRUE)>>,
   <<Mapping(<<"f", "r", "?", "i", "g", "h", "t">>, <<"S", "H", "I", "P", "P", "I", "N", "G", "_", "C", "O", "S", "T">>, 5, TRUE)>>,
   <<Mapping(<<"f", "?">>, <<"S", "H", "I", "P", "P", "I", "N", "G", "_", "C", "O", "S", "T">>, 5, TRUE)>>,
   <<Mapping(<<"c", "h", "a", "r", "g", "e">>, <<"F", "E", "E">>, 2, TRUE), Mapping(<<"f", "r", "e", "i", "g", "h", "t">>, <<"S", "H", "I", "P", "P", "I", "N", "G", "_", "C", "O", "S", "T">>, 8, TRUE)>>,
   <<Mapping(<<"f", "r", "e", "i", "g", "h", "t">>, <<"S", "H", "I", "P", "P", "I", "N", "G", "_", "C", "O", "S", "T">>, 8, TRUE), Mapping(<<"c", "h", "a", "r", "g", "e">>, <<"F", "E", "E">>, 2, TRUE)>>,
   <<Mapping(<<"c", "h", "a", "r", "g", "e">>, <<"F", "E", "E">>, 2, TRUE), Mapping(<<"f", "r", "e", "i", "g", "h", "t">>, <<"S", "H", "I", "P", "P", "I", "N", "G", "_", "C", "O", "S", "T">>, 8, FALSE)>>,
   <<Mapping(<<"c", "h", "a", "r", "g", "e">>, <<"F", "E", "E">>, 2, TRUE), Mapping(<<"f", "r", "e", "*">>, <<"S", "H", "I", "P", "P", "I", "N", "G", "_", "C", "O", "S", "T">>, 8, TRUE),
     Mapping(<<"f", "r", "e", "i", "g", "h", "t">>, <<"C", "A", "R", "R", "I", "A", "G", "E">>, 8, TRUE)>>}

MappedValues == {<<"f", "r", "e", "i", "g", "h", "t", " ", "c", "h", "a", "r", "g", "e">>, <<"F", "r", "e", "i", "g", "h", "t">>, <<"f", "x">>, <<"h", "a", "n", "d", "l", "i", "n", "g">>}

Validation(dataType, required, minLength, pattern) ==
  <<[dataType |-> dataType, required |-> required, minLength |-> minLength,
     maxLength |-> 0, pattern |-> pattern]>>

RuleRegex(fieldName, pattern, validation) ==
  [fieldName |-> fieldName, extractionType |-> "regex", pattern |-> pattern,
   position |-> <<>>, tableConfig |-> <<>>, keywordConfig |-> <<>>,
   calculationConfig |-> <<>>, validation |-> validation]

RuleKeyword(fieldName, keywords, direction) ==
  [fieldName |-> fieldName, extractionType |-> "keyword", pattern |-> <<>>,
   position |-> <<>>, tableConfig |-> <<>>,
   keywordConfig |-> <<[keywords |-> keywords, searchRadius |-> 1, direction |-> direction]>>,
   calculationConfig |-> <<>>, validation |-> NoValidation]

RuleCalculation(fieldName, operation, sourceFields) ==
  [fieldName |-> fieldName, extractionType |-> "calculation", pattern |-> <<>>,
   position |-> <<>>, tableConfig |-> <<>>, keywordConfig |-> <<>>,
   calculationConfig |-> <<[operation |-> operation, sourceFields |-> sourceFields]>>,
   validation |-> NoValidation]

RuleAmount == RuleKeyword("amount", <<<<"A", "m", "o", "u", "n", "t", ":">>>>, "same_line")

RuleTotalKeyword == RuleKeyword("total", <<<<"T", "o", "t", "a", "l", ":">>>>, "same_line")

\* rule lists with values that fail a check, rules that throw, calculations over
\* fields of earlier rules, and keyword lists in both orders
CheckedRuleSets ==
  {<<>>,
   <<RuleRegex("invoice_number", <<"I", "N", "V", "-", "1">>, Validation("number", FALSE, 0, <<>>))>>,
   <<RuleNumber, RuleRegex("code", <<"I", "N", "V", "-", "1">>, Validation("string", FALSE, 9, <<>>))>>,
   <<RuleNumber, RuleRegex("code", <<"I", "N", "V", "-", "1">>, Validation("string", TRUE, 0, <<"X">>))>>,
   <<RuleNumber, RuleTotal, RuleRegex("code", <<"I", "N", "V", "-", "1">>, Validation("number", FALSE, 0, <<>>))>>,
   <<RuleRegex("code", <<"(">>, NoValidation), RuleNumber>>,
   <<RuleRegex("code", <<"(">>, Validation("string", TRUE, 0, <<>>)), RuleNumber>>,
   <<RuleAmount, RuleTotalKeyword, RuleCalculation("result", "sum", <<"amount", "total">>)>>,
   <<RuleAmount, RuleTotalKeyword, RuleCalculation("result", "subtract", <<"amount", "total">>)>>,
   <<RuleAmount, RuleTotalKeyword, RuleCalculation("result", "divide", <<"amount", "total">>)>>,
   <<RuleKeyword("value", <<<<"T", "o", "t", "a", "l", ":">>, <<"A", "m", "o", "u", "n", "t", ":">>>>, "same_line")>>,
   <<RuleKeyword("value", <<<<"A", "m", "o", "u", "n", "t", ":">>, <<"T", "o", "t", "a", "l", ":">>>>, "same_line")>>,
   <<RuleKeyword("value", <<<<"T", "o", "t", "a", "l", ":">>, <<"A", "m", "o", "u", "n", "t", ":">>>>, "after")>>}

EngineRuleSets ==
  {<<RuleTotal>>, <<RuleNumber>>, <<RuleTotal, RuleNumber>>,
   <<RulePosition("note", 1, TRUE)>>, <<RulePosition("note", 9, TRUE)>>,
   <<RulePosition("note", 9, FALSE)>>, <<RuleNumber, RulePosition("note", 9, TRUE)>>,
   <<RuleNumber, RulePosition("note", 9, FALSE)>>}
  \cup CheckedRuleSets

EngineInputs ==
  {[op |-> "processPDF", file |-> f] : f \in EngineFiles}
  \cup {[op |-> "selectTemplate", rows |-> t, text |-> x] :
          t \in EngineTemplateSets, x \in EngineTexts}
  \cup {[op |-> "applyHardcodedMappings", rows |-> m, value |-> v] :
          m \in MappingRows, v \in MappedValues}
  \cup {[op |-> "processDocument", rules |-> r, text |-> x] :
          r \in EngineRuleSets, x \in EngineTexts}

EngineInit ==
  /\ docFile = [d \in Docs |-> FileUnknown]
  /\ docStages = [d \in Docs |-> Stages[FileUnknown]]
  /\ docs = [d \in Docs |->
               [status |-> "UPLOADED", confidenceScore |-> NoConfidence,
                customerId |-> NoCustomer, templateId |-> NoTemplate]]
  /\ jobs = <<>>
  /\ csvOutputs = <<>>
  /\ csvFiles = {}
  /\ history = <<>>
  /\ now = 0
  /\ faults = 0
  /\ isInitialized = TRUE
  /\ run = [r \in Runs |-> NoRun]
  /\ pc = [r \in Runs |-> "idle"]
  /\ loc = [r \in Runs |-> NoLocals]
  /\ resp = [r \in Runs |-> NewResponse]
  /\ pin \in EngineInputs
  /\ pout = <<>>
  /\ identifierPatterns = StoredPatterns
  /\ patternCache = Patterns
  /\ adds = [a \in Adders |-> NoAdd]
  /\ ServiceInit

\* pdfProcessor.processPDF(buffer)
CallProcessPDF ==
  /\ pin.op = "processPDF"
  /\ pout = <<>>
  /\ pout' = <<processPDF(pin.file)>>
  /\ UNCHANGED <<orchVars, pin>>

\* selectTemplate(customerId, text) after initialize() loaded the templates, twice:
\* the two loads may have returned the rows in different orders
CallSelectTemplate ==
  /\ pin.op = "selectTemplate"
  /\ pout = <<>>
  /\ \E first \in loadedTemplates(pin.rows), second \in loadedTemplates(pin.rows) :
       pout' = <<[loaded |-> <<first, second>>,
                  selected |-> <<selectTemplate(first, "c1", pin.text),
                                 selectTemplate(second, "c1", pin.text)>>]>>
  /\ UNCHANGED <<orchVars, pin>>

\* applyHardcodedMappings(template.hardcodedMappings, fieldName, value) on the
\* mappings as initialize() loaded them
CallApplyHardcodedMappings ==
  /\ pin.op = "applyHardcodedMappings"
  /\ pout = <<>>
  /\ \E loaded \in loadedMappings(pin.rows) :
       pout' = <<[loaded |-> loaded,
                  value |-> applyHardcodedMappings(loaded, "category", VStr(pin.value))]>>
  /\ UNCHANGED <<orchVars, pin>>

\* templateEngine.processDocument(template, text, structuredData)
CallProcessDocument ==
  /\ pin.op = "processDocument"
  /\ pout = <<>>
  /\ pout' = <<engineProcessDocument([Templates[1] EXCEPT !.extractionRules = pin.rules],
                                     pin.text, StructuredData(pin.text))>>
  /\ UNCHANGED <<orchVars, pin>>

EngineNext ==
  \/ CallProcessPDF
  \/ CallSelectTemplate
  \/ CallApplyHardcodedMappings
  \/ CallProcessDocument

EngineSpec == EngineInit /\ [][EngineNext]_vars

(***************************************************************************)
(* The mapping routes of a template: POST /api/templates/[id]/mappings     *)
(* (src/unnamed/part_001) and PATCH, DELETE                                *)
(* /api/templates/[id]/mappings/[mappingId] (src/unnamed/part_002). Every  *)
(* awaited query is a step; the audit log row is left out.                 *)
(***************************************************************************)
\* the pipeline at rest while the routes are called
PipelineIdle ==
  /\ docFile = [d \in Docs |-> FileUnknown]
  /\ docStages = [d \in Docs |-> Stages[FileUnknown]]
  /\ docs = [d \in Docs |->
               [status |-> "UPLOADED", confidenceScore |-> NoConfidence,
                customerId |-> NoCustomer, templateId |-> NoTemplate]]
  /\ jobs = <<>>
  /\ csvOutputs = <<>>
  /\ csvFiles = {}
  /\ history = <<>>
  /\ now = 0
  /\ faults = 0
  /\ isInitialized = TRUE
  /\ run = [r \in Runs |-> NoRun]
  /\ pc = [r \in Runs |-> "idle"]
  /\ loc = [r \in Runs |-> NoLocals]
  /\ resp = [r \in Runs |-> NewResponse]
  /\ pin = [op |-> "none"]
  /\ pout = <<>>
  /\ identifierPatterns = StoredPatterns
  /\ patternCache = Patterns
  /\ adds = [a \in Adders |-> NoAdd]

MappingInit == PipelineIdle /\ ServiceInit

\* what the mapping routes leave alone
besideMappings ==
  <<docFile, docStages, dbVars, now, faults, isInitialized, runVars, pin, pout, detVars,
    authVars>>

MappingFields == {"category"}

MappingPatterns == {<<"f", "r", "e", "*">>, <<"c", "h", "a", "r", "g", "e">>}

\* the bodies of the PATCH requests
PatchBodies ==
  {[NoData EXCEPT !.sourcePattern = <<p>>] : p \in MappingPatterns}
  \cup {[NoData EXCEPT !.isActive = <<TRUE>>]}

\* findFirst({ where: { templateId, fieldName, sourcePattern, isActive: true,
\* id: { not: mappingId } } }); mappingId 0 excludes no row
findFirstActive(fieldName, sourcePattern, mappingId) ==
  \E i \in DOMAIN mappingTable :
    /\ mappingTable[i].fieldName = fieldName
    /\ mappingTable[i].sourcePattern = sourcePattern
    /\ mappingTable[i].isActive
    /\ mappingTable[i].id # mappingId

\* the route answers
answered(q, status) == [requests EXCEPT ![q].pc = "done", ![q].status = status]

\* POST: the body is valid, the template exists; findFirst for a duplicate
PostFindFirst(q, fieldName, sourcePattern) ==
  /\ requests[q].pc = "idle"
  /\ served < MaxRequests
  /\ served' = served + 1
  /\ requests' =
       IF findFirstActive(fieldName, sourcePattern, 0)
       THEN [requests EXCEPT ![q] = [NoRequest EXCEPT !.kind = "POST", !.pc = "done",
                                                      !.status = 409]]
       ELSE [requests EXCEPT ![q] =
               [NoRequest EXCEPT !.kind = "POST", !.pc = "create",
                                 !.data = [NoData EXCEPT !.fieldName = <<fieldName>>,
                                                         !.sourcePattern = <<sourcePattern>>]]]
  /\ UNCHANGED <<besideMappings, mappingTable>>

\* POST: hardcodedMapping.create
PostCreate(q) ==
  /\ requests[q].pc = "create"
  /\ mappingTable' = Append(mappingTable,
                            [id |-> Len(mappingTable) + 1,
                             fieldName |-> requests[q].data.fieldName[1],
                             sourcePattern |-> requests[q].data.sourcePattern[1],
                             isActive |-> TRUE])
  /\ requests' = answered(q, 201)
  /\ UNCHANGED <<besideMappings, served>>

\* PATCH: findUnique({ where: { id: mappingId, templateId } })
PatchFindUnique(q, mappingId, data) ==
  /\ requests[q].pc = "idle"
  /\ served < MaxRequests
  /\ served' = served + 1
  /\ requests' =
       IF mappingId \notin DOMAIN mappingTable
       THEN [requests EXCEPT ![q] = [NoRequest EXCEPT !.kind = "PATCH", !.pc = "done",
                                                      !.mappingId = mappingId,
                                                      !.status = 404]]
       ELSE [requests EXCEPT ![q] =
               [NoRequest EXCEPT
                  !.kind = "PATCH", !.mappingId = mappingId,
                  \* the existing row's pattern and field where the body gives none
                  !.data = [data EXCEPT
                              !.fieldName =
                                 IF data.sourcePattern # <<>> /\ @ = <<>>
                                 THEN <<mappingTable[mappingId].fieldName>> ELSE @],
                  !.pc = IF data.sourcePattern # <<>> \/ data.fieldName # <<>>
                         THEN "findDuplicate" ELSE "update"]]
  /\ UNCHANGED <<besideMappings, mappingTable>>

\* PATCH: findFirst for a duplicate of the pattern and field the update gives
PatchFindFirst(q) ==
  /\ requests[q].pc = "findDuplicate"
  /\ requests' =
       IF findFirstActive(requests[q].data.fieldName[1], requests[q].data.sourcePattern[1],
                          requests[q].mappingId)
       THEN answered(q, 409)
       ELSE [requests EXCEPT ![q].pc = "update"]
  /\ UNCHANGED <<besideMappings, mappingTable, served>>

\* PATCH: hardcodedMapping.update({ where: { id: mappingId }, data: updateData })
PatchUpdate(q) ==
  /\ requests[q].pc = "update"
  /\ mappingTable' =
       [mappingTable EXCEPT
          ![requests[q].mappingId] =
             [@ EXCEPT
                !.sourcePattern = IF requests[q].data.sourcePattern # <<>>
                                  THEN requests[q].data.sourcePattern[1] ELSE @,
                !.isActive = IF requests[q].data.isActive # <<>>
                             THEN requests[q].data.isActive[1] ELSE @]]
  /\ requests' = answered(q, 200)
  /\ UNCHANGED <<besideMappings, served>>

\* DELETE: findUnique({ where: { id: mappingId, templateId } })
DeleteFindUnique(q, mappingId) ==
  /\ requests[q].pc = "idle"
  /\ served < MaxRequests
  /\ served' = served + 1
  /\ requests' =
       [requests EXCEPT ![q] =
          [NoRequest EXCEPT !.kind = "DELETE", !.mappingId = mappingId,
                            !.pc = IF mappingId \in DOMAIN mappingTable
                                   THEN "softDelete" ELSE "done",
                            !.status = IF mappingId \in DOMAIN mappingTable THEN 0 ELSE 404]]
  /\ UNCHANGED <<besideMappings, mappingTable>>

\* DELETE: update({ where: { id: mappingId }, data: { isActive: false } })
DeleteUpdate(q) ==
  /\ requests[q].pc = "softDelete"
  /\ mappingTable' = [mappingTable EXCEPT ![requests[q].mappingId].isActive = FALSE]
  /\ requests' = answered(q, 200)
  /\ UNCHANGED <<besideMappings, served>>

\* the response is sent: the client may send its next request
Respond(q) ==
  /\ requests[q].pc = "done"
  /\ requests' = [requests EXCEPT ![q] = NoRequest]
  /\ UNCHANGED <<besideMappings, mappingTable, served>>

MappingNext ==
  \/ \E q \in Clients, f \in MappingFields, p \in MappingPatterns : PostFindFirst(q, f, p)
  \/ \E q \in Clients : PostCreate(q)
  \/ \E q \in Clients, m \in 1..MaxRequests, d \in PatchBodies : PatchFindUnique(q, m, d)
  \/ \E q \in Clients : PatchFindFirst(q)
  \/ \E q \in Clients : PatchUpdate(q)
  \/ \E q \in Clients, m \in 1..MaxRequests : DeleteFindUnique(q, m)
  \/ \E q \in Clients : DeleteUpdate(q)
  \/ \E q \in Clients : Respond(q)

MappingSpec == MappingInit /\ [][MappingNext]_vars

(***************************************************************************)
(* Two uploads at a time: the background tasks of two documents call       *)
(* processDocument of the one orchestrator of the upload route             *)
(* (src/src/app/api/upload/route.ts, 17), no awaited operation rejecting.  *)
(***************************************************************************)
PairDocs == {1, 2}

\* the two documents were uploaded under the same file name
PairFiles == {FileAcmeScan, FileUnknown}

PairInit ==
  /\ \E f \in PairFiles : docFile = [d \in PairDocs |-> f]
  /\ docStages = [d \in PairDocs |-> Stages[docFile[d]]]
  /\ docs = [d \in PairDocs |->
               [status |-> "UPLOADED", confidenceScore |-> NoConfidence,
                customerId |-> NoCustomer, templateId |-> NoTemplate]]
  /\ jobs = <<>>
  /\ csvOutputs = <<>>
  /\ csvFiles = {}
  /\ history = <<>>
  /\ now = 0
  /\ faults = 0
  /\ isInitialized = TRUE
  /\ run = [r \in Runs |-> NoRun]
  /\ pc = [r \in Runs |-> "idle"]
  /\ loc = [r \in Runs |-> NoLocals]
  /\ resp = [r \in Runs |-> NewResponse]
  /\ pin = [op |-> "none"]
  /\ pout = <<>>
  /\ identifierPatterns = StoredPatterns
  /\ patternCache = Patterns
  /\ adds = [a \in Adders |-> NoAdd]
  /\ ServiceInit

PairNext ==
  \/ \E r \in Runs, d \in PairDocs : StartUpload(r, d)
  \/ \E r \in Runs : SetProcessing(r)
  \/ \E r \in Runs : CreateJob(r)
  \/ \E r \in Runs : Extract(r)
  \/ \E r \in Runs : OcrReturns(r)
  \/ \E r \in Runs : UnknownDocUpdate(r)
  \/ \E r \in Runs : BasicCsv(r)
  \/ \E r \in Runs : TemplateCsv(r)
  \/ \E r \in Runs : TemplateDocUpdate(r)
  \/ \E r \in Runs : CreateCsvOutput(r)
  \/ \E r \in Runs : JobUpdate(r)

PairSpec == PairInit /\ [][PairNext]_vars

(***************************************************************************)
(* The credentials provider: authorize(credentials) of one account, called *)
(* by several clients at once.  The clock now is read in minutes here.     *)
(***************************************************************************)
\* new Date(Date.now() + 15 * 60 * 1000), in minutes
LockMinutes == 15

AuthInit == PipelineIdle /\ ServiceInit

\* what authorize leaves alone
besideAuth ==
  <<docFile, docStages, dbVars, faults, isInitialized, runVars, pin, pout, detVars, apiVars>>

\* user.lockedUntil && user.lockedUntil > new Date()
isLocked(u, time) == u.lockedUntil # 0 /\ u.lockedUntil > time

\* prisma.user.findUnique resolves: the call throws for a locked or a deactivated
\* account, or goes on to bcrypt.compare with the row it has read
FindUser(l, valid) ==
  /\ logins[l].pc = "idle"
  /\ authLog.attempts < MaxAttempts
  /\ logins' = [logins EXCEPT ![l] =
       IF isLocked(user, now)
       THEN [pc |-> "done", valid |-> valid, seen |-> user.failedAttempts,
             outcome |-> "locked"]
       ELSE IF ~user.isActive
       THEN [pc |-> "done", valid |-> valid, seen |-> user.failedAttempts,
             outcome |-> "deactivated"]
       ELSE [pc |-> "compare", valid |-> valid, seen |-> user.failedAttempts,
             outcome |-> "pending"]]
  /\ authLog' = [authLog EXCEPT !.attempts = @ + 1]
  /\ UNCHANGED <<besideAuth, now, user>>

\* the password is not valid: failedAttempts is incremented in the database and
\* lockedUntil is set when the row that was read had 4 failed attempts or more
\* (undefined leaves the column as it is); authorize returns null
FailedUpdate(l) ==
  /\ logins[l].pc = "compare"
  /\ ~logins[l].valid
  /\ user' = [user EXCEPT !.failedAttempts = @ + 1,
                          !.lockedUntil = IF logins[l].seen >= 4 THEN now + LockMinutes
                                          ELSE @]
  /\ logins' = [logins EXCEPT ![l].pc = "done", ![l].outcome = "null"]
  /\ authLog' = IF logins[l].seen >= 4
                THEN [authLog EXCEPT !.streak = 0,
                                     !.lockedOn = @ \cup {authLog.streak + 1}]
                ELSE [authLog EXCEPT !.streak = @ + 1]
  /\ UNCHANGED <<besideAuth, now>>

\* the password is valid: failedAttempts: 0, lockedUntil: null; authorize returns
\* the user
SuccessUpdate(l) ==
  /\ logins[l].pc = "compare"
  /\ logins[l].valid
  /\ user' = [user EXCEPT !.failedAttempts = 0, !.lockedUntil = 0]
  /\ logins' = [logins EXCEPT ![l].pc = "done", ![l].outcome = "user"]
  /\ authLog' = [authLog EXCEPT !.streak = 0]
  /\ UNCHANGED <<besideAuth, now>>

\* the caller has its answer
AuthReturn(l) ==
  /\ logins[l].pc = "done"
  /\ logins' = [logins EXCEPT ![l] = NoLogin]
  /\ UNCHANGED <<besideAuth, now, user, authLog>>

\* a minute passes
Tick ==
  /\ now < MaxTime
  /\ now' = now + 1
  /\ UNCHANGED <<besideAuth, authVars>>

AuthNext ==
  \/ \E l \in Callers, valid \in BOOLEAN : FindUser(l, valid)
  \/ \E l \in Callers : FailedUpdate(l)
  \/ \E l \in Callers : SuccessUpdate(l)
  \/ \E l \in Callers : AuthReturn(l)
  \/ Tick

AuthSpec == AuthInit /\ [][AuthNext]_vars

(***************************************************************************)
(* Properties of the runs.                                                 *)
(***************************************************************************)
Terminal == {"COMPLETED", "FAILED"}

\* run r is a call for a document that exists
ForDocument(r) == run[r].kind # "none" /\ run[r].doc \in Docs

\* processDocument has returned its response to the caller of run r
Returned(r) == pc[r] = "done" /\ loc[r].outcome = "returned"

\* no other call has been made, so nothing else wrote to the document of run r
Solo(r) == \A q \in Runs \ {r} : pc[q] = "idle"

\* the text extraction of run r gave text the pipeline went on with
ExtractionSucceeded(r) == loc[r].branch # "none"

\* the jobs run r created
JobsBy(r) == {i \in DOMAIN jobs : jobs[i].by = r}

\* C1: a CSV output record is never one created by a run whose job ended FAILED: the
\* latest CSV output record of a document comes from a run whose job ended COMPLETED.
C1_NoCsvOutputFromFailedJob ==
  \A i \in DOMAIN csvOutputs : jobs[csvOutputs[i].job].status # "FAILED"

\* C2: a job is created RUNNING, and once the call that created it is over (it
\* returned or threw, whatever the branch and also when a database write of the
\* finalization failed) the job is COMPLETED or FAILED.
C2_JobFinalizedWhenCallEnds ==
  /\ \A i \in DOMAIN jobs :
       jobs[i].status = "RUNNING" \/ pc[jobs[i].by] \notin {"createJob", "extract"}
  /\ \A r \in Runs :
       (pc[r] \in {"done", "asyncCatch"} /\ loc[r].job # 0)
         => jobs[loc[r].job].status \in Terminal

\* C3: after processDocument returns, the document is COMPLETED when the text
\* extraction succeeded and FAILED when it did not, never UPLOADED or PROCESSING
\* (stated for a call that ran alone and met no rejected operation).
C3_DocumentStatusAfterReturn ==
  \A r \in Runs :
    (Returned(r) /\ Solo(r) /\ faults = 0)
      => docs[run[r].doc].status =
           IF ExtractionSucceeded(r) THEN "COMPLETED" ELSE "FAILED"

\* C4: when no customer is detected the run writes a CSV file, ends its job
\* COMPLETED, marks the document COMPLETED, returns success = true, and 0.3 is the
\* confidence of the response and the one stored on the document.
C4_UnknownCustomerFallback ==
  \A r \in Runs :
    (Returned(r) /\ Solo(r) /\ faults = 0 /\ loc[r].branch = "noCustomer")
      => /\ resp[r].csvFilePath # <<>>
         /\ \E f \in csvFiles : f.path = resp[r].csvFilePath[1]
         /\ jobs[loc[r].job].status = "COMPLETED"
         /\ docs[run[r].doc].status = "COMPLETED"
         /\ resp[r].success
         /\ REq(resp[r].confidence, BasicConfidence)
         /\ docs[run[r].doc].confidenceScore # NoConfidence
         /\ REq(docs[run[r].doc].confidenceScore, BasicConfidence)

\* a stage of run r threw inside the try block, after the job was created
StageThrew(r) == loc[r].err # "none" /\ loc[r].job # 0

\* C5: when a stage throws after the job was created, the exception does not leave
\* processDocument, the job ends FAILED with the exception's message and the
\* document ends FAILED.
C5_StageFailureIsRecorded ==
  \A r \in Runs :
    (StageThrew(r) /\ pc[r] \in {"done", "asyncCatch"})
      => /\ loc[r].outcome = "returned"
         /\ jobs[loc[r].job].status = "FAILED"
         /\ jobs[loc[r].job].errorMessage = loc[r].err
         /\ (Solo(r) => docs[run[r].doc].status = "FAILED")

\* the job of run r has been failed for running out of time
FailedByTimeout(r) ==
  /\ loc[r].job \in DOMAIN jobs
  /\ jobs[loc[r].job].status = "FAILED"
  /\ jobs[loc[r].job].errorMessage = "Processing timeout"

\* C6: a run whose OCR step never returns has its job FAILED with a timeout error, or
\* can still take the step that fails it: its job is not left RUNNING for ever.
C6_HungOcrFailsJob ==
  \A r \in Runs : pc[r] = "ocrHung" => (FailedByTimeout(r) \/ ENABLED Step(r))

\* the steps of reprocessDocument before processDocument has created the job
BeforeJob == {"findDocument", "getNextVersion", "createHistory", "createJob"}

\* what holds of the jobs of a reprocessDocument call for an existing document
OneJobPerCall(r) ==
  /\ Cardinality(JobsBy(r)) = IF loc[r].job # 0 THEN 1 ELSE 0
  /\ loc[r].job # 0 => (JobsBy(r) = {loc[r].job} /\ jobs[loc[r].job].documentId = run[r].doc)
  /\ pc[r] \notin BeforeJob \cup {"idle", "done"} => loc[r].job # 0
  /\ (pc[r] = "done" /\ loc[r].job = 0) => loc[r].outcome = "threw"

\* a step leaves every job alone but the one of the call that takes the step
OnlyOwnJobChanges ==
  /\ Len(jobs') >= Len(jobs)
  /\ \A i \in DOMAIN jobs :
       jobs'[i] # jobs[i] => \E r \in Runs : pc'[r] # pc[r] /\ loc[r].job = i

HistoryOf(d) == SelectSeq(history, LAMBDA h : h.documentId = d)

\* C8: the versions of a document's history rows are 1, 2, 3, ... in append order,
\* also when forced-template calls for the document run concurrently.
C8_VersionsCountUp ==
  \A d \in Docs : \A k \in DOMAIN HistoryOf(d) : HistoryOf(d)[k].version = k

\* C9: two reprocessDocument calls for the same document with the same template, the
\* second made after the first was over, return the same extractedData.
C9_ReprocessingIsIdempotent ==
  \A q \in Runs, r \in Runs :
    (/\ run[q].kind = "reprocess" /\ run[r].kind = "reprocess"
     /\ q \in run[r].after
     /\ getTemplate(Templates, run[q].templateId) # <<>>
     /\ ForDocument(q) /\ run[q].doc = run[r].doc
     /\ run[q].templateId = run[r].templateId
     /\ Returned(q) /\ Returned(r)
     /\ resp[q].hasData /\ resp[r].hasData)
      => ResponseData(q) = ResponseData(r)

\* C10: the confidence the detector returns, the one the engine returns and the one
\* of the orchestrator's response lie in [0, 1] for patterns of non-negative weight.
C10_ConfidencesInUnitInterval ==
  /\ pout.detection # <<>> => RIn01(pout.detection[1].confidence)
  /\ pout.processing # <<>> => RIn01(pout.processing[1].confidence)
  /\ pout.response # <<>> => RIn01(pout.response[1])

\* all three confidences are computed, the detector's is the capped one of a file
\* name that names the customer and its patterns, the engine's is not zero
C10_Witness ==
  /\ pout.detection # <<>> /\ pout.processing # <<>> /\ pout.response # <<>>
  /\ REq(pout.detection[1].confidence, Rat(9, 10))
  /\ RLt(RZero, pout.processing[1].confidence)
  /\ RLt(Rat(9, 10), pout.response[1])

(***************************************************************************)
(* Properties of the detector.                                             *)
(***************************************************************************)
\* detectCustomer has been called
Detected == pout.detection # <<>>

\* the call returned a result
DetectReturned == Detected /\ pout.detection[1].kind = "returned"

\* C11: detectCustomer never throws, whatever the text, the file name and the stored
\* patterns are, and when no heuristic of any customer gives a candidate it returns
\* customerId = null, confidence 0 and no matched patterns.
C11_DetectCustomerNeverThrows ==
  Detected =>
    /\ pout.detection[1].kind = "returned"
    /\ pout.detection[1].pooled = <<>> =>
         /\ pout.detection[1].result.customerId = NoCustomer
         /\ REq(pout.detection[1].result.confidence, RZero)
         /\ pout.detection[1].result.matchedPatterns = <<>>

\* i is the first of the pooled candidates of highest confidence
FirstBest(pooled, i) ==
  /\ \A j \in DOMAIN pooled : RLe(pooled[j].confidence, pooled[i].confidence)
  /\ \A j \in 1..(i - 1) : RLt(pooled[j].confidence, pooled[i].confidence)

\* C12: detectCustomer returns the pooled candidate of highest confidence, and among
\* candidates of equal highest confidence the one pushed first (customers in cache
\* order, per customer exact, pattern, fuzzy, file name).
C12_BestCandidateFirstOnTies ==
  (DetectReturned /\ pout.detection[1].pooled # <<>>) =>
    \E i \in DOMAIN pout.detection[1].pooled :
      /\ FirstBest(pout.detection[1].pooled, i)
      /\ pout.detection[1].result = pout.detection[1].pooled[i]

\* a call returned the first of two different candidates that share the highest
\* confidence
C12_Witness ==
  /\ DetectReturned
  /\ \E i, j \in DOMAIN pout.detection[1].pooled :
       /\ i < j
       /\ FirstBest(pout.detection[1].pooled, i)
       /\ REq(pout.detection[1].pooled[i].confidence, pout.detection[1].pooled[j].confidence)
       /\ pout.detection[1].pooled[i] # pout.detection[1].pooled[j]
       /\ pout.detection[1].result = pout.detection[1].pooled[i]

\* the name tokens of a customer that are longer than 2 characters
LongTokens(customer) == SelectSeq(nameWords(customer), LAMBDA w : Len(w) > 2)

\* C13: a customer whose every name token longer than 2 characters occurs in the
\* text gets a fuzzy candidate of confidence 0.8 with its customerId, whatever
\* shorter tokens its name has.
C13_FuzzyCountsLongTokensOnly ==
  DetectReturned =>
    \A k \in DOMAIN pin.customers :
      (/\ LongTokens(pin.customers[k]) # <<>>
       /\ \A i \in DOMAIN LongTokens(pin.customers[k]) :
            Includes(pin.text, LongTokens(pin.customers[k])[i], FALSE))
        => \E c \in DOMAIN pout.detection[1].pooled :
             /\ pout.detection[1].pooled[c].detectionMethod = "fuzzy_match"
             /\ pout.detection[1].pooled[c].matchedPatterns = LongTokens(pin.customers[k])
             /\ pout.detection[1].pooled[c].customerId = pin.customers[k].id
             /\ REq(pout.detection[1].pooled[c].confidence, Rat(8, 10))

\* C14: a call of addCustomerPattern that failed (no such customer, or the stored
\* update rejected) has put its pattern in no cached set, and when a call returns the
\* cached set of its customer equals the stored one and holds the new pattern.
C14_CacheFollowsStore ==
  \A a \in Adders :
    /\ adds[a].outcome = "threw" =>
         \A c \in DOMAIN patternCache :
           \A k \in DOMAIN patternCache[c] : patternCache[c][k] # adds[a].pattern
    /\ adds[a].outcome = "returned" =>
         /\ adds[a].storedAtReturn = <<storedArray(adds[a].currentPatterns)>>
         /\ \E k \in DOMAIN adds[a].currentPatterns :
              adds[a].currentPatterns[k] = adds[a].pattern

\* C15: once concurrent calls of addCustomerPattern for one customer have all
\* returned, the stored and the cached patterns of the customer hold every pattern
\* that was added.
C15_NoAddedPatternIsLost ==
  \A a \in Adders :
    (/\ adds[a].outcome = "returned"
     /\ \A b \in Adders : adds[b].pc = "done")
      => /\ \E k \in DOMAIN patternCache[adds[a].customerId] :
              patternCache[adds[a].customerId][k] = adds[a].pattern
         /\ \E k \in DOMAIN identifierPatterns[adds[a].customerId].items :
              identifierPatterns[adds[a].customerId].items[k] = storedForm(adds[a].pattern)

(***************************************************************************)
(* Properties of the stages.                                               *)
(***************************************************************************)
\* the operation of the input has been applied
Applied(op) == pin.op = op /\ pout # <<>>

\* a path of the extraction gives text
YieldsText(part) == part.kind = "text" /\ part.text # <<>>

\* C16: processPDF returns the OCR text whenever the direct path gives no acceptable
\* result and OCR gives text, also when the direct extraction throws, and it fails
\* only when neither the direct path nor OCR yields text.
C16_OcrFallbackUnlessBothFail ==
  Applied("processPDF") =>
    /\ (~directAccepted(pin.file) /\ YieldsText(pin.file.ocr)) =>
         /\ pout[1].kind = "returned"
         /\ pout[1].data[1].text = pin.file.ocr.text
    /\ pout[1].kind = "threw" =>
         (~YieldsText(pin.file.direct) /\ ~YieldsText(pin.file.ocr))

\* C17: two calls of selectTemplate with the same customer, text and set of loaded
\* templates return the same template, whatever order the templates were loaded in.
C17_SelectionIgnoresLoadOrder ==
  Applied("selectTemplate") => pout[1].selected[1] = pout[1].selected[2]

\* the active mapping rows that match the value
MatchingRows ==
  {i \in DOMAIN pin.rows :
     pin.rows[i].isActive /\ mappingMatches(pin.rows[i], VStr(pin.value))}

RECURSIVE globHolds(_, _)
\* the whole text matches the glob: "*" is any run of characters, "?" exactly one
globHolds(text, pattern) ==
  IF pattern = <<>> THEN text = <<>>
  ELSE IF Head(pattern) = "*"
       THEN \E k \in 0..Len(text) : globHolds(SubSeq(text, k + 1, Len(text)), Tail(pattern))
       ELSE /\ text # <<>>
            /\ (Head(pattern) = "?" \/ Head(pattern) = Head(text))
            /\ globHolds(Tail(text), Tail(pattern))

\* when a mapping matches, as C19 has it
MatchesAsStated(sourcePattern, value) ==
  \/ includes(toLowerCase(value), toLowerCase(sourcePattern))
  \/ /\ \E i \in DOMAIN sourcePattern : sourcePattern[i] \in {"*", "?"}
     /\ globHolds(toLowerCase(value), toLowerCase(sourcePattern))

\* C19: a mapping remaps a value when the lower-cased value contains the lower-cased
\* sourcePattern, or when the sourcePattern has a "*" or a "?" and the whole value
\* matches it as a glob.
C19_WildcardMappingMatches ==
  (/\ Applied("applyHardcodedMappings")
   /\ Len(pin.rows) = 1
   /\ MatchesAsStated(pin.rows[1].sourcePattern, pin.value))
    => pout[1].value = VStr(pin.rows[1].targetValue)

\* an entry of errors or warnings names the field
Names(entries, fieldName) == \E i \in DOMAIN entries : entries[i][2] = fieldName

\* C20: a required rule whose extraction yields no value adds an error, no warning,
\* and makes success false; a rule that is not required and yields no value adds only
\* a warning.
C20_RequiredWithoutValueIsError ==
  Applied("processDocument") =>
    \A i \in DOMAIN pin.rules :
      isEmptyValue(extractField(pin.rules[i], pin.text, StructuredData(pin.text))) =>
        IF isRequired(pin.rules[i])
        THEN /\ Names(pout[1].errors, pin.rules[i].fieldName)
             /\ ~Names(pout[1].warnings, pin.rules[i].fieldName)
             /\ ~pout[1].success
        ELSE /\ Names(pout[1].warnings, pin.rules[i].fieldName)
             /\ ~Names(pout[1].errors, pin.rules[i].fieldName)

\* the value a rule of the input extracts
ValueOf(i) == extractField(pin.rules[i], pin.text, StructuredData(pin.text))

\* the rule yields a value: it does not throw, and yields neither null nor ''
WasExtracted(i) == ValueOf(i).kind # "throw" /\ ~isEmptyValue(ValueOf(i))

\* the rule yields a value that passes its validation
PassedValidation(i) == WasExtracted(i) /\ validateField(pin.rules[i], ValueOf(i)).isValid

\* C21: processDocument returns confidence = rules whose value was extracted and
\* passed validation / rules, 0 with no rules; a value that fails a check is placed in
\* extractedData with a warning and not counted; success is true exactly when errors
\* is empty and confidence > 0.5.
C21_ConfidenceIsValidOverTotal ==
  Applied("processDocument") =>
    LET n == Len(pin.rules)
        valid == Cardinality({i \in DOMAIN pin.rules : PassedValidation(i)})
    IN /\ REq(pout[1].confidence, IF n = 0 THEN RZero ELSE Rat(valid, n))
       /\ \A i \in DOMAIN pin.rules :
            (WasExtracted(i) /\ ~PassedValidation(i)) =>
              /\ pin.rules[i].fieldName \in DOMAIN pout[1].extractedData
              /\ pout[1].extractedData[pin.rules[i].fieldName] = ValueOf(i)
              /\ Names(pout[1].warnings, pin.rules[i].fieldName)
       /\ pout[1].success <=>
            (pout[1].errors = <<>> /\ RLt(Rat(1, 2), pout[1].confidence))

\* the result accounts for the rule: its field is stored or named in an entry
Evaluated(i) ==
  \/ pin.rules[i].fieldName \in DOMAIN pout[1].extractedData
  \/ Names(pout[1].errors, pin.rules[i].fieldName)
  \/ Names(pout[1].warnings, pin.rules[i].fieldName)

\* C22: when the extraction of a rule throws, processDocument still evaluates every
\* later rule, and records the failure as an error if the rule is required and as a
\* warning if it is not.
C22_ThrowIsErrorOnlyIfRequired ==
  Applied("processDocument") =>
    \A i \in DOMAIN pin.rules :
      ValueOf(i).kind = "throw" =>
        /\ \A j \in DOMAIN pin.rules : j > i => Evaluated(j)
        /\ IF isRequired(pin.rules[i])
           THEN Names(pout[1].errors, pin.rules[i].fieldName)
           ELSE /\ Names(pout[1].warnings, pin.rules[i].fieldName)
                /\ ~Names(pout[1].errors, pin.rules[i].fieldName)

RECURSIVE FoldLeft(_, _)
\* the numbers folded left to right with the operation
FoldLeft(op, nums) ==
  IF Len(nums) = 1 THEN nums[1]
  ELSE LET acc == FoldLeft(op, SubSeq(nums, 1, Len(nums) - 1))
           last == nums[Len(nums)]
       IN CASE op = "sum" -> RAdd(acc, last)
            [] op = "multiply" -> RMul(acc, last)
            [] op = "subtract" -> RSub(acc, last)
            [] OTHER -> RDiv(acc, last)

\* the rule is a calculation whose source fields were all extracted as numbers, other
\* than zero, by earlier rules of the run
CalculatesOverExtracted(i) ==
  /\ pin.rules[i].extractionType = "calculation"
  /\ pin.rules[i].calculationConfig # <<>>
  /\ \A k \in DOMAIN pin.rules[i].calculationConfig[1].sourceFields :
       LET f == pin.rules[i].calculationConfig[1].sourceFields[k]
       IN /\ \E j \in 1..(i - 1) : pin.rules[j].fieldName = f
          /\ f \in DOMAIN pout[1].extractedData
          /\ parseFloat(pout[1].extractedData[f]).kind = "num"
          /\ parseFloat(pout[1].extractedData[f]).n[1] # 0

\* C23: a calculation rule reads its source fields from the values extracted by
\* earlier rules of the same run: after rules that extracted a and b, a sum rule over
\* the two fields yields a + b, and subtract and divide fold the fields left to right.
C23_CalculationReadsEarlierFields ==
  Applied("processDocument") =>
    \A i \in DOMAIN pin.rules :
      CalculatesOverExtracted(i) =>
        LET cfg == pin.rules[i].calculationConfig[1]
            nums == [k \in DOMAIN cfg.sourceFields |->
                       parseFloat(pout[1].extractedData[cfg.sourceFields[k]]).n]
        IN /\ pin.rules[i].fieldName \in DOMAIN pout[1].extractedData
           /\ pout[1].extractedData[pin.rules[i].fieldName].kind = "num"
           /\ REq(pout[1].extractedData[pin.rules[i].fieldName].n,
                  FoldLeft(cfg.operation, nums))

\* the lines of the input text
TextLines == splitLines(pin.text)

\* the keywords of the rule that the line contains, case-insensitively
KeywordsIn(i, l) ==
  {k \in DOMAIN pin.rules[i].keywordConfig[1].keywords :
     includes(toLowerCase(TextLines[l]),
              toLowerCase(pin.rules[i].keywordConfig[1].keywords[k]))}

\* the values the direction gives relative to line l, for the keywords found in it
ValuesAt(i, l) ==
  {keywordHit(TextLines, l, pin.rules[i].keywordConfig[1].keywords[k],
              pin.rules[i].keywordConfig[1]).value : k \in KeywordsIn(i, l)}

\* C24: keyword extraction uses the first line of the text that contains any of the
\* rule's keywords, whatever the position of that keyword in the keyword list, and
\* returns the value taken relative to that line according to direction.
C24_FirstLineWithAnyKeyword ==
  Applied("processDocument") =>
    \A i \in DOMAIN pin.rules :
      (pin.rules[i].extractionType = "keyword" /\ pin.rules[i].keywordConfig # <<>>) =>
        \A l \in DOMAIN TextLines :
          (/\ KeywordsIn(i, l) # {}
           /\ \A m \in 1..(l - 1) : KeywordsIn(i, m) = {}
           /\ VNull \notin ValuesAt(i, l)) =>
            /\ pin.rules[i].fieldName \in DOMAIN pout[1].extractedData
            /\ pout[1].extractedData[pin.rules[i].fieldName] \in ValuesAt(i, l)

(***************************************************************************)
(* Properties of the mapping routes.                                       *)
(***************************************************************************)
\* C25: after any sequence and interleaving of create, update and soft-delete
\* requests, no template has two active hardcoded mappings with the same fieldName
\* and sourcePattern.
C25_NoActiveDuplicateMappings ==
  \A i, j \in DOMAIN mappingTable :
    (/\ i # j
     /\ mappingTable[i].isActive
     /\ mappingTable[j].isActive
     /\ mappingTable[i].fieldName = mappingTable[j].fieldName)
      => mappingTable[i].sourcePattern # mappingTable[j].sourcePattern

(***************************************************************************)
(* Properties of concurrent runs.                                          *)
(***************************************************************************)
\* the runs are calls for two different documents
DifferentDocuments(r, q) ==
  r # q /\ run[r].kind # "none" /\ run[q].kind # "none" /\ run[r].doc # run[q].doc

\* C26: concurrent processDocument runs for different documents do not interfere:
\* they never write to the same CSV file path, also when the documents have the same
\* file name, and the CSV file of a returned run holds what that run wrote.
C26_RunsDoNotShareCsvPath ==
  \A r, q \in Runs :
    DifferentDocuments(r, q) =>
      /\ (resp[r].csvFilePath # <<>> /\ resp[q].csvFilePath # <<>>) =>
           resp[r].csvFilePath # resp[q].csvFilePath
      /\ (Returned(r) /\ resp[r].csvFilePath # <<>>) =>
           [path |-> resp[r].csvFilePath[1], by |-> r] \in csvFiles

(***************************************************************************)
(* Properties of the response.                                             *)
(***************************************************************************)
\* the job row run r created
JobOf(r) == jobs[loc[r].job]

\* C27: the response processDocument returns has success = true exactly when the
\* run's job ended COMPLETED; a run that entered the top-level catch, its job FAILED,
\* returns neither success = true nor a csvFilePath.
C27_SuccessIffJobCompleted ==
  \A r \in Runs :
    (Returned(r) /\ loc[r].job \in DOMAIN jobs) =>
      /\ resp[r].success <=> (JobOf(r).status = "COMPLETED")
      /\ (loc[r].err # "none" /\ JobOf(r).status = "FAILED") =>
           (~resp[r].success /\ resp[r].csvFilePath = <<>>)

\* C28: whenever a document's status is COMPLETED, a CSV file for it has been written
\* and a CSV output record for the document exists.
C28_CompletedHasCsv ==
  \A d \in DOMAIN docs :
    docs[d].status = "COMPLETED" =>
      /\ \E f \in csvFiles : run[f.by].doc = d
      /\ \E i \in DOMAIN csvOutputs : csvOutputs[i].documentId = d

\* a heuristic of some customer gave a candidate that names its customer
SomeCandidateIdentified ==
  /\ DetectReturned
  /\ \E i \in DOMAIN pout.detection[1].pooled :
       pout.detection[1].pooled[i].customerId # NoCustomer

\* C29: when some heuristic of some customer gave a candidate whose customerId is not
\* null, the result detectCustomer returns has a customerId that is not null.
C29_IdentifiedCandidateIsReturned ==
  SomeCandidateIdentified => pout.detection[1].result.customerId # NoCustomer

\* C30: the account is locked exactly on the fifth failed password attempt in a row
\* since the last successful login, and after a lock has expired it again takes five
\* failed attempts to lock it: no lock is set on a shorter or a longer streak, and no
\* streak reaches five without a lock.
C30_LockOnFifthFailureOnly ==
  /\ authLog.lockedOn \subseteq {5}
  /\ authLog.streak < 5

====
